---------------------------- MODULE Spec2Model ----------------------------
(***************************************************************************)
(* The base-81 big-integer engine of TritJS-CISA (src/TritJS-CISA.c):      *)
(* base-3 text <-> base-81 digits, comparison, addition, subtraction,      *)
(* naive and Karatsuba multiplication and the multiplication cache.        *)
(*                                                                         *)
(* A value (T81BigInt) is a record [sign, digits]: sign is 0 (positive) or *)
(* 1 (negative), digits is the base-81 digit sequence, least significant   *)
(* first; digits[1] is the C digits[0] and Len(digits) is the C len.       *)
(* A C string is a sequence of one-character strings.                      *)
(***************************************************************************)
EXTENDS Integers, Sequences, FiniteSets

VARIABLES
    str,        \* parse harness: the text handed to parse_trit_string
    pstage,     \* parse harness: "input", "parsed" or "printed"
    perr,       \* parse harness: the TritError parse returned
    pout,       \* parse harness: <<>> (NULL) or <<v>>, the value parse produced
    sout,       \* parse harness: the text tritjs_to_string produced
    opA,        \* arithmetic caller: first operand of the call
    opB,        \* arithmetic caller: second operand of the call
    last,       \* arithmetic caller: the operation called last ("none" before)
    res,        \* arithmetic caller: [err, val, oob], what the call returned
    arrA,       \* array harness: first digit array handed to the multipliers
    arrB,       \* array harness: second digit array, of the same length
    outN,       \* array harness: <<>> or the 2n digits naive_mul wrote
    outK,       \* array harness: <<>> or the 2n digits karatsuba wrote
    cutover,    \* the length up to which karatsuba runs naive_mul (16)
    pool,       \* multiply caller: the operands the caller has at hand
    budget,     \* multiply caller: the number of calls it may still make
    mul_cache,  \* the global mul_cache[MUL_CACHE_SIZE]
    heap,       \* the digit buffers allocated so far, by buffer number
    held,       \* multiply caller: the returned values it still owns
    hit,        \* multiply caller: whether the last call was served by the cache
    precision,  \* divide caller: the precision of the last call (0 before)
    objs,       \* storage caller: the T81BigInt structs it holds, by number
    sys,        \* the buffers, mappings, descriptors and files of the process
    total_mapped_bytes, \* the global counter of mapped bytes
    thr         \* concurrent callers: where each one is in multiply_with_cache

parseVars == <<str, pstage, perr, pout, sout>>
arithVars == <<opA, opB, last, res>>
karaVars == <<arrA, arrB, outN, outK>>
mulVars == <<pool, budget, mul_cache, heap, held, hit>>
storeVars == <<objs, sys, total_mapped_bytes, thr>>
vars == <<parseVars, arithVars, karaVars, cutover, mulVars, precision,
          storeVars>>

\* What each caller leaves alone.
outsideParse == <<arithVars, karaVars, cutover, mulVars, precision,
                 storeVars>>
outsideArith == <<parseVars, karaVars, cutover, mulVars, precision,
                 storeVars>>
outsideKara == <<parseVars, arithVars, cutover, mulVars, precision,
                 storeVars>>
outsideMul == <<parseVars, karaVars, cutover, precision,
                 storeVars>>

-----------------------------------------------------------------------------
(* Program constants *)

BASE_81 == 81
ERR_INVALID == 2
KARATSUBA_CUTOVER == 16
MUL_CACHE_SIZE == 8
KEY_SIZE == 128

(* Bounds of the model *)

MaxStrLen == 6

-----------------------------------------------------------------------------
(* The state before any call, and the state of a caller that is not used *)

\* No call made yet, no result.
NoRes == [err |-> 0, val |-> <<>>, oob |-> FALSE]

Zero == [sign |-> 0, digits |-> <<0>>]

\* static MulCacheEntry mul_cache[MUL_CACHE_SIZE] = {{0}};
\* buf is the number of the digit buffer, 0 for NULL.
EmptySlot ==
    [key |-> <<>>, used |-> 0, result |-> [sign |-> 0, len |-> 0, buf |-> 0]]

EmptyCache == [i \in 0..(MUL_CACHE_SIZE - 1) |-> EmptySlot]

IdleParse ==
    /\ str = <<>>
    /\ pstage = "idle"
    /\ perr = 0
    /\ pout = <<>>
    /\ sout = <<>>

IdleArith ==
    /\ opA = Zero
    /\ opB = Zero
    /\ last = "none"
    /\ res = NoRes

IdleKara ==
    /\ arrA = <<>>
    /\ arrB = <<>>
    /\ outN = <<>>
    /\ outK = <<>>

IdleMul ==
    /\ pool = {}
    /\ budget = 0
    /\ mul_cache = EmptyCache
    /\ heap = <<>>
    /\ held = {}
    /\ hit = FALSE

IdleDiv == precision = 0

IdleStore ==
    /\ objs = <<>>
    /\ sys = <<>>
    /\ total_mapped_bytes = 0
    /\ thr = <<>>

-----------------------------------------------------------------------------
(* Characters *)

\* The character codes the comparisons of the parser read.
Ord(c) ==
    CASE c = "-" -> 45
      [] c = "0" -> 48
      [] c = "1" -> 49
      [] c = "2" -> 50
      [] c = "3" -> 51
      [] c = ":" -> 58
      [] OTHER   -> 109

\* (char)('0' + r)
DigitChar(r) == IF r = 0 THEN "0" ELSE IF r = 1 THEN "1" ELSE "2"

-----------------------------------------------------------------------------
(* Allocation and trimming, on digit sequences *)

\* TLC computes the argument of an operator when it is first read, inside
\* whatever is reading it, and keeps the value; Evaluated(v) is TRUE and has
\* v computed where it stands.  The loops below hand every intermediate value
\* on as an argument, so that each is computed once.
Evaluated(v) == v = v

\* for (i = lo; i <= hi; i++) st = Body(i, st);
\* The iterations run in order, each on the state the one before left.  The
\* range is halved so that a long loop is evaluated on a shallow stack.
RECURSIVE ForRange(_, _, _, _)
ForRange(Body(_, _), lo, hi, st) ==
    IF ~Evaluated(st) \/ lo > hi THEN st
    ELSE IF lo = hi THEN Body(lo, st)
    ELSE ForRange(Body, (lo + hi) \div 2 + 1, hi,
                  ForRange(Body, lo, (lo + hi) \div 2, st))

\* n zero bytes.
Zeros(n) ==
    LET Step(i, s) == Append(s, 0)
    IN  ForRange(Step, 1, n, <<>>)

\* calloc(bytesNeeded, 1): lengthNeeded zero digits.
AllocateDigits(lengthNeeded) == Zeros(lengthNeeded)

RECURSIVE TrimLen(_, _)
TrimLen(digits, len) ==
    IF len > 1 /\ digits[len] = 0 THEN TrimLen(digits, len - 1) ELSE len

\* trim_leading_zeros leaving len as it is.
TrimLeadingZeros_None(digits) == digits

\* while (x->len > 1 && x->digits[x->len-1] == 0) x->len--;
TrimLeadingZeros(digits) == SubSeq(digits, 1, TrimLen(digits, Len(digits)))

-----------------------------------------------------------------------------
(* parse_trit_string_base81 *)

\* for (i = 0; i < out->len; i++) { val = digits[i]*3 + carry; ... }
RECURSIVE ParseMulAdd(_, _, _)
ParseMulAdd(digits, i, carry) ==
    IF i > Len(digits)
    THEN [digits |-> digits, carry |-> carry]
    ELSE LET val == digits[i] * 3 + carry
         IN  ParseMulAdd([digits EXCEPT ![i] = val % BASE_81], i + 1,
                         val \div BASE_81)

\* while (carry) { old_len = len; allocate_digits(out, len+1);
\*                 digits[old_len] = carry % 81; carry /= 81; }
\* allocate_digits hands out a fresh zeroed buffer of len+1 digits.
RECURSIVE ParseGrow(_, _)
ParseGrow(digits, carry) ==
    IF carry = 0
    THEN digits
    ELSE LET old_len == Len(digits)
             fresh   == AllocateDigits(old_len + 1)
         IN  ParseGrow([fresh EXCEPT ![old_len + 1] = carry % BASE_81],
                       carry \div BASE_81)

\* for (; str[pos]; pos++) { ... }  followed by trim_leading_zeros(out)
RECURSIVE ParseLoop(_, _, _)
ParseLoop(s, pos, digits) ==
    IF pos > Len(s)
    THEN [err |-> 0, digits |-> TrimLeadingZeros(digits)]
    ELSE LET c == s[pos]
         IN  IF Ord(c) < Ord("0") \/ Ord(c) > Ord("2")
             THEN [err |-> ERR_INVALID, digits |-> digits]
             ELSE LET digit3 == Ord(c) - Ord("0")
                      m      == ParseMulAdd(digits, 1, digit3)
                  IN  ParseLoop(s, pos + 1, ParseGrow(m.digits, m.carry))

ParseTritStringBase81(s) ==
    IF Len(s) = 0
    THEN [err |-> ERR_INVALID, sign |-> 0, digits |-> <<>>]
    ELSE LET sign == IF s[1] = "-" THEN 1 ELSE 0
             pos  == IF s[1] = "-" THEN 2 ELSE 1
             r    == ParseLoop(s, pos, AllocateDigits(1))
         IN  [err |-> r.err, sign |-> sign, digits |-> r.digits]

\* parse_trit_string: on error the value is released and *out is NULL.
ParseTritString(s) ==
    LET r == ParseTritStringBase81(s)
    IN  IF r.err # 0
        THEN [err |-> r.err, out |-> <<>>]
        ELSE [err |-> 0, out |-> <<[sign |-> r.sign, digits |-> r.digits]>>]

-----------------------------------------------------------------------------
(* t81bigint_to_trit_string *)

\* for (i = 0; i < len; i++) if (digits[i] != 0) { isZero = 0; break; }
AllZero(digits) == \A i \in 1..Len(digits) : digits[i] = 0

\* carry = 0;
\* for (i = len-1; i >= 0; i--) { val = digits[i] + carry*81;
\*                                digits[i] = val/3; carry = val%3; }
DivBy3(digits) ==
    LET Step(k, st) ==
            LET i   == Len(digits) + 1 - k
                val == st.digits[i] + st.carry * BASE_81
            IN  [digits |-> [st.digits EXCEPT ![i] = val \div 3],
                 carry  |-> val % 3]
    IN  ForRange(Step, 1, Len(digits), [digits |-> digits, carry |-> 0])

\* buf[idx++] = (char)('0' + carry), after the division d of the copy by 3.
PushTrit(d, buf) ==
    [digits |-> d.digits, buf |-> Append(buf, DigitChar(d.carry))]

\* One round of while (1): leave if tmpCopy == 0, else tmpCopy /= 3 and the
\* remainder is appended.
ToStringRound(k, st) ==
    IF AllZero(st.digits) THEN st ELSE PushTrit(DivBy3(st.digits), st.buf)

\* if (idx == 0) buf[idx++] = '0';
ZeroIfEmpty(buf) == IF Len(buf) = 0 THEN <<"0">> ELSE buf

\* The rounds of while (1), 4*len at a time, until tmpCopy == 0; a round
\* after the value has reached zero does nothing.
RECURSIVE ToStringRun(_)
ToStringRun(st) ==
    IF AllZero(st.digits) THEN st.buf
    ELSE ToStringRun(ForRange(ToStringRound, 1, 4 * Len(st.digits), st))

\* while (1) { if (tmpCopy == 0) { if (idx == 0) buf[idx++] = '0'; break; }
\*             tmpCopy /= 3; buf[idx++] = '0' + carry; }
ToStringLoop(digits) ==
    ZeroIfEmpty(ToStringRun([digits |-> digits, buf |-> <<>>]))

\* The buffer handed out as it was filled, without the swaps.
Reverse_None(buf) == buf

\* for (i = 0; i < idx/2; i++) swap(buf[i], buf[idx-1-i]);
Reverse(buf) ==
    LET Step(i, out) == Append(out, buf[Len(buf) + 1 - i])
    IN  ForRange(Step, 1, Len(buf), <<>>)

ToTritString(in) ==
    IF Len(in.digits) = 1 /\ in.digits[1] = 0
    THEN <<"0">>
    ELSE LET buf    == ToStringLoop(in.digits)
             signed == IF in.sign # 0 THEN Append(buf, "-") ELSE buf
         IN  Reverse(signed)

-----------------------------------------------------------------------------
(* The parse harness: a caller parses a text and prints the value back *)

Alphabet == {"-", "0", "1", "2", "3"}

Texts == UNION {[1..n -> Alphabet] : n \in 0..MaxStrLen}

InitParse ==
    /\ str \in Texts
    /\ pstage = "input"
    /\ perr = 0
    /\ pout = <<>>
    /\ sout = <<>>
    /\ IdleArith
    /\ IdleKara
    /\ IdleDiv
    /\ IdleStore
    /\ cutover = KARATSUBA_CUTOVER
    /\ IdleMul

Parse ==
    /\ pstage = "input"
    /\ LET r == ParseTritString(str)
       IN  /\ perr' = r.err
           /\ pout' = r.out
    /\ pstage' = "parsed"
    /\ UNCHANGED <<str, sout, outsideParse>>

TritjsToString ==
    /\ pstage = "parsed"
    /\ pout # <<>>
    /\ sout' = ToTritString(pout[1])
    /\ pstage' = "printed"
    /\ UNCHANGED <<str, perr, pout, outsideParse>>

NextParse == Parse \/ TritjsToString

SpecParse == InitParse /\ [][NextParse]_vars

-----------------------------------------------------------------------------
(* What the texts mean: the reference the parse claims are stated against *)

TritChars == {"0", "1", "2"}

\* The digit characters of a text: the text without its leading '-'.
DigitsOf(s) == IF Len(s) > 0 /\ s[1] = "-" THEN SubSeq(s, 2, Len(s)) ELSE s

\* An optional leading '-' followed by one or more characters of 0, 1, 2.
WellFormed(s) ==
    /\ Len(DigitsOf(s)) >= 1
    /\ \A i \in 1..Len(DigitsOf(s)) : DigitsOf(s)[i] \in TritChars

RECURSIVE Val3(_)
Val3(ds) ==
    IF Len(ds) = 0 THEN 0
    ELSE 3 * Val3(SubSeq(ds, 1, Len(ds) - 1)) + (Ord(ds[Len(ds)]) - Ord("0"))

RECURSIVE Val81(_)
Val81(digits) ==
    IF Len(digits) = 0 THEN 0
    ELSE digits[1] + BASE_81 * Val81(SubSeq(digits, 2, Len(digits)))

RECURSIVE StripZeros(_)
StripZeros(ds) ==
    IF Len(ds) > 1 /\ ds[1] = "0" THEN StripZeros(Tail(ds)) ELSE ds

\* The text with its redundant leading zeros stripped, the sign kept.
Stripped(s) ==
    IF Len(s) > 0 /\ s[1] = "-"
    THEN <<"-">> \o StripZeros(DigitsOf(s))
    ELSE StripZeros(s)

\* A text that writes zero with a minus sign ("-0", "-00", ...).
NegativeZeroText(s) == WellFormed(s) /\ s[1] = "-" /\ Val3(DigitsOf(s)) = 0

-----------------------------------------------------------------------------
(* Claims on parse and to_string, under SpecParse *)

\* C1: for every valid base-3 text s, to_string(parse(s)) is s with its
\* redundant leading zeros stripped (s itself when it has none), for texts of
\* every length, those of 5 or more trits included.  The sign of a text that
\* writes zero is left aside here.
C1_RoundTrip ==
    (pstage = "printed" /\ WellFormed(str) /\ ~NegativeZeroText(str))
        => sout = Stripped(str)

\* C2: parse(s) on a valid s yields a value that is negative iff s starts with
\* '-' and whose base-81 magnitude is the base-3 value of the digits of s.
C2_ParseValue ==
    (pstage # "input" /\ WellFormed(str))
        => /\ perr = 0
           /\ pout # <<>>
           /\ (pout[1].sign = 1) <=> (str[1] = "-")
           /\ Val81(pout[1].digits) = Val3(DigitsOf(str))

\* C3: parse returns InvalidInput (2) and no value exactly when s is not an
\* optional '-' followed by one or more of 0, 1, 2; every other text is
\* accepted.
C3_ParseRejects ==
    pstage # "input"
        => IF WellFormed(str)
           THEN perr = 0 /\ pout # <<>>
           ELSE perr = ERR_INVALID /\ pout = <<>>

-----------------------------------------------------------------------------
(* cmp_base81 *)

\* for (i = a_len-1; i >= b_len; i--) if (a[i] != 0) return 1;
RECURSIVE HighNonZero(_, _, _)
HighNonZero(a, i, b_len) ==
    IF i <= b_len THEN FALSE
    ELSE IF a[i] # 0 THEN TRUE
    ELSE HighNonZero(a, i - 1, b_len)

\* for (i = m-1; i >= 0; i--) { if (a[i] < b[i]) return -1; if (a[i] > b[i]) return 1; }
RECURSIVE CmpLow(_, _, _)
CmpLow(a, b, i) ==
    IF i < 1 THEN 0
    ELSE IF a[i] < b[i] THEN -1
    ELSE IF a[i] > b[i] THEN 1
    ELSE CmpLow(a, b, i - 1)

\* cmp_base81 answering 1 for equal magnitudes (a final `return 1`).
CmpBase81_NoEqual(a, b) ==
    IF Len(a) > Len(b) /\ HighNonZero(a, Len(a), Len(b)) THEN 1
    ELSE IF Len(b) > Len(a) /\ HighNonZero(b, Len(b), Len(a)) THEN -1
    ELSE LET c == CmpLow(a, b, IF Len(a) < Len(b) THEN Len(a) ELSE Len(b))
         IN  IF c = 0 THEN 1 ELSE c

CmpBase81(a, b) ==
    IF Len(a) > Len(b) /\ HighNonZero(a, Len(a), Len(b)) THEN 1
    ELSE IF Len(b) > Len(a) /\ HighNonZero(b, Len(b), Len(a)) THEN -1
    ELSE CmpLow(a, b, IF Len(a) < Len(b) THEN Len(a) ELSE Len(b))

-----------------------------------------------------------------------------
(* tritjs_add_big *)

\* while (carry && cpos < len) { val = digits[cpos] + carry; ... cpos++; }
RECURSIVE AddCarry(_, _, _)
AddCarry(digits, cpos, carry) ==
    IF carry = 0 \/ cpos > Len(digits)
    THEN digits
    ELSE LET val == digits[cpos] + carry
         IN  AddCarry([digits EXCEPT ![cpos] = val % BASE_81], cpos + 1,
                      val \div BASE_81)

\* for (i = 0; i < B->len; i++) { val = digits[i] + B->digits[i]; ... }
RECURSIVE AddLoop(_, _, _)
AddLoop(digits, b, i) ==
    IF i > Len(b)
    THEN digits
    ELSE LET val == digits[i] + b[i]
             d1  == [digits EXCEPT ![i] = val % BASE_81]
         IN  AddLoop(AddCarry(d1, i + 1, val \div BASE_81), b, i + 1)

\* The digits of A copied into a zeroed buffer of len digits.
CopyInto(len, a) == a \o Zeros(len - Len(a))

\* The borrow taken from the next digit only, with no wrap back into 0..80
\* and no further propagation.
SubBorrow_Once(digits, j) ==
    IF j > Len(digits)
    THEN [digits |-> digits, oob |-> TRUE]
    ELSE [digits |-> [digits EXCEPT ![j] = (digits[j] - 1) % 256],
          oob |-> FALSE]

\* while (1) { digits[j]--; if (digits[j] < 255) break;
\*             digits[j] += 81; j++; if (j >= larger->len) break; }
\* digits are unsigned char: the decrement of 0 wraps to 255.  A j past the
\* buffer is a write out of bounds.
RECURSIVE SubBorrow(_, _)
SubBorrow(digits, j) ==
    IF j > Len(digits)
    THEN [digits |-> digits, oob |-> TRUE]
    ELSE LET dec == (digits[j] - 1) % 256
         IN  IF dec < 255
             THEN [digits |-> [digits EXCEPT ![j] = dec], oob |-> FALSE]
             ELSE LET d1 == [digits EXCEPT ![j] = (dec + BASE_81) % 256]
                  IN  IF j + 1 > Len(digits)
                      THEN [digits |-> d1, oob |-> FALSE]
                      ELSE SubBorrow(d1, j + 1)

\* for (i = 0; i < smaller->len; i++) { diff = digits[i] - smaller->digits[i]; ... }
RECURSIVE SubLoop(_, _, _, _)
SubLoop(digits, smaller, i, oob) ==
    IF i > Len(smaller)
    THEN [digits |-> digits, oob |-> oob]
    ELSE IF i > Len(digits)
    THEN [digits |-> digits, oob |-> TRUE]
    ELSE LET diff == digits[i] - smaller[i]
         IN  IF diff < 0
             THEN LET br == SubBorrow(digits, i + 1)
                  IN  SubLoop([br.digits EXCEPT ![i] = diff + BASE_81],
                              smaller, i + 1, oob \/ br.oob)
             ELSE SubLoop([digits EXCEPT ![i] = diff], smaller, i + 1, oob)

TritjsAddBig(A, B) ==
    IF A.sign = B.sign
    THEN LET len == (IF Len(A.digits) > Len(B.digits)
                     THEN Len(A.digits) ELSE Len(B.digits)) + 1
             sum == AddLoop(CopyInto(len, A.digits), B.digits, 1)
         IN  [err |-> 0,
              val |-> <<[sign |-> A.sign, digits |-> TrimLeadingZeros(sum)]>>,
              oob |-> FALSE]
    ELSE LET c == CmpBase81(A.digits, B.digits)
         IN  IF c = 0
             THEN [err |-> 0, val |-> <<[sign |-> 0, digits |-> <<0>>]>>,
                   oob |-> FALSE]
             ELSE LET larger  == IF c > 0 THEN A ELSE B
                      smaller == IF c > 0 THEN B ELSE A
                      d == SubLoop(larger.digits, smaller.digits, 1, FALSE)
                  IN  [err |-> 0,
                       val |-> <<[sign |-> larger.sign,
                                  digits |-> TrimLeadingZeros(d.digits)]>>,
                       oob |-> d.oob]

-----------------------------------------------------------------------------
(* tritjs_subtract_big *)

\* Subtraction that forgets to flip the sign of B.
TritjsSubtractBig_NoFlip(A, B) == TritjsAddBig(A, B)

\* tmp = *B; tmp.sign = !oldsign; add(A, &tmp)
TritjsSubtractBig(A, B) ==
    LET tmp == [B EXCEPT !.sign = IF B.sign = 0 THEN 1 ELSE 0]
    IN  TritjsAddBig(A, tmp)

-----------------------------------------------------------------------------
(* The arithmetic caller: two canonical operands, one call *)

MaxArithLen == 3

DigitVals == {0, 1, 80}

\* Digit sequences of 1..n digits with no most-significant zero, or <<0>>.
CanonDigits(n) ==
    {d \in UNION {[1..k -> DigitVals] : k \in 1..n} :
        Len(d) = 1 \/ d[Len(d)] # 0}

\* Canonical values: canonical digits, and zero is not negative.
CanonValues(n) ==
    {v \in [sign : {0, 1}, digits : CanonDigits(n)] :
        v.digits = <<0>> => v.sign = 0}

InitArith ==
    /\ opA \in CanonValues(MaxArithLen)
    /\ opB \in CanonValues(MaxArithLen)
    /\ last = "none"
    /\ res = NoRes
    /\ IdleParse
    /\ IdleKara
    /\ IdleDiv
    /\ IdleStore
    /\ cutover = KARATSUBA_CUTOVER
    /\ IdleMul

Add ==
    /\ last = "none"
    /\ res' = TritjsAddBig(opA, opB)
    /\ last' = "add"
    /\ UNCHANGED <<opA, opB, outsideArith>>

Subtract ==
    /\ last = "none"
    /\ res' = TritjsSubtractBig(opA, opB)
    /\ last' = "sub"
    /\ UNCHANGED <<opA, opB, outsideArith>>

NextArith == Add \/ Subtract

SpecArith == InitArith /\ [][NextArith]_vars


-----------------------------------------------------------------------------
(* What the values mean: the reference the arithmetic claims are stated   *)
(* against                                                                 *)

ToInt(v) == IF v.sign = 1 THEN -Val81(v.digits) ELSE Val81(v.digits)

RECURSIVE NatDigits(_)
NatDigits(n) ==
    IF n < BASE_81 THEN <<n>>
    ELSE <<n % BASE_81>> \o NatDigits(n \div BASE_81)

\* The canonical value of an integer.
FromInt(n) ==
    [sign |-> IF n < 0 THEN 1 ELSE 0,
     digits |-> NatDigits(IF n < 0 THEN -n ELSE n)]

IsZero(v) == v.digits = <<0>>

\* negate: the sign flipped, Zero left Zero.
Negate(v) ==
    IF IsZero(v) THEN v ELSE [v EXCEPT !.sign = IF v.sign = 0 THEN 1 ELSE 0]

MaxOf(m, n) == IF m > n THEN m ELSE n

-----------------------------------------------------------------------------
(* Claims on add and subtract, under SpecArith *)

\* C4: for canonical a and b, add(a,b) is the canonical value a+b; with equal
\* signs the result keeps the common sign and has at most
\* max(len_a,len_b)+1 digits; with different signs the result takes the sign
\* of the operand of larger magnitude (equal magnitudes give Zero).
C4_AddCorrect ==
    last = "add"
        => /\ res.err = 0
           /\ ~res.oob
           /\ res.val = <<FromInt(ToInt(opA) + ToInt(opB))>>
           /\ opA.sign = opB.sign
                => /\ res.val[1].sign = opA.sign
                   /\ Len(res.val[1].digits)
                        <= MaxOf(Len(opA.digits), Len(opB.digits)) + 1
           /\ (opA.sign # opB.sign /\ Val81(opA.digits) > Val81(opB.digits))
                => res.val[1].sign = opA.sign
           /\ (opA.sign # opB.sign /\ Val81(opA.digits) < Val81(opB.digits))
                => res.val[1].sign = opB.sign

\* A borrow that runs through a zero digit: 81^2 + (-1) = <<80, 80>>.
C4_Witness ==
    /\ last = "add"
    /\ opA = [sign |-> 0, digits |-> <<0, 0, 1>>]
    /\ opB = [sign |-> 1, digits |-> <<1>>]
    /\ res.val = <<[sign |-> 0, digits |-> <<80, 80>>]>>

\* C5: for canonical a and b, subtract(a,b) is the canonical value a-b, the
\* value add(a, negate(b)) returns; subtract(a, Zero) = a and
\* subtract(x, x) = Zero.
C5_SubtractCorrect ==
    last = "sub"
        => /\ res.err = 0
           /\ ~res.oob
           /\ res.val = <<FromInt(ToInt(opA) - ToInt(opB))>>
           /\ res = TritjsAddBig(opA, Negate(opB))
           /\ IsZero(opB) => res.val = <<opA>>
           /\ opA = opB => res.val = <<Zero>>

\* A negative value minus Zero: the copy of Zero the code negates has sign 1.
C5_Witness ==
    /\ last = "sub"
    /\ IsZero(opB)
    /\ opA.sign = 1
    /\ Len(opA.digits) = MaxArithLen
    /\ res.val = <<opA>>

\* C6: for every canonical x, add(x, Zero) = x and add(x, negate(x)) is the
\* canonical Zero (one digit 0, sign not negative).
C6_AddIdentityInverse ==
    last = "add"
        => /\ IsZero(opB) => res.val = <<opA>>
           /\ opB = Negate(opA) => res.val = <<[sign |-> 0, digits |-> <<0>>]>>

\* A negative value of several digits added to its negation.
C6_Witness ==
    /\ last = "add"
    /\ opA.sign = 1
    /\ Len(opA.digits) > 1
    /\ opB = Negate(opA)
    /\ res.val = <<Zero>>


-----------------------------------------------------------------------------
(* naive_mul, add_shifted, sub_inplace: unsigned char arrays *)

\* out[top] += carry;
AddCarryAt(end, top) ==
    [end.out EXCEPT ![top] = (end.out[top] + end.carry) % 256]

\* The row of naive_mul adding the two digits instead of multiplying them.
NaiveRow_Sum(A, B, out, i) ==
    LET Step(j, st) ==
            LET pos == i + j - 1
                val == st.out[pos] + A[i] + B[j] + st.carry
            IN  [out   |-> [st.out EXCEPT ![pos] = val % BASE_81],
                 carry |-> val \div BASE_81]
    IN  AddCarryAt(ForRange(Step, 1, Len(B), [out |-> out, carry |-> 0]),
                   i + Len(B))

\* carry = 0;
\* for (j = 0; j < blen; j++) { pos = i+j; val = out[pos] + A[i]*B[j] + carry;
\*                              out[pos] = val % 81; carry = val / 81; }
\* out[i+blen] += carry;
NaiveRow(A, B, out, i) ==
    LET Step(j, st) ==
            LET pos == i + j - 1
                val == st.out[pos] + A[i] * B[j] + st.carry
            IN  [out   |-> [st.out EXCEPT ![pos] = val % BASE_81],
                 carry |-> val \div BASE_81]
    IN  AddCarryAt(ForRange(Step, 1, Len(B), [out |-> out, carry |-> 0]),
                   i + Len(B))

\* naive_mul(A, alen, B, blen, out): the alen+blen digits written to out.
\* memset(out, 0, alen+blen); for (i = 0; i < alen; i++) { ... }
NaiveMul(A, B) ==
    LET Row(i, out) == NaiveRow(A, B, out, i)
    IN  ForRange(Row, 1, Len(A), Zeros(Len(A) + Len(B)))

\* for (i = 0; i < slen; i++) { idx = i+shift; if (idx >= dlen) break;
\*                              sum = dest[idx] + src[i] + carry; ... }
AddShiftedLoop(dest, src, shift) ==
    LET Step(i, st) ==
            LET idx == i + shift
                sum == st.dest[idx] + src[i] + st.carry
            IN  IF idx > Len(dest) THEN st
                ELSE [dest  |-> [st.dest EXCEPT ![idx] = sum % BASE_81],
                      carry |-> sum \div BASE_81]
    IN  ForRange(Step, 1, Len(src), [dest |-> dest, carry |-> 0])

\* idx = slen+shift;
\* while (carry && idx < dlen) { sum = dest[idx] + carry; ... idx++; }
AddShiftedCarry(st, from) ==
    LET Step(idx, c) ==
            LET sum == c.dest[idx] + c.carry
            IN  IF c.carry = 0 THEN c
                ELSE [dest  |-> [c.dest EXCEPT ![idx] = sum % BASE_81],
                      carry |-> sum \div BASE_81]
    IN  ForRange(Step, from, Len(st.dest), st).dest

\* add_shifted(dest, dlen, src, slen, shift): the dlen digits of dest.
AddShifted(dest, src, shift) ==
    AddShiftedCarry(AddShiftedLoop(dest, src, shift), Len(src) + shift + 1)

\* sub_inplace(out, src, length): the length digits of out.
\* for (i = 0; i < length; i++) { diff = out[i] - src[i] - borrow;
\*     if (diff < 0) { diff += 81; borrow = 1; } else borrow = 0; out[i] = diff; }
SubInplace(out, src) ==
    LET Step(i, st) ==
            LET diff == st.out[i] - src[i] - st.borrow
            IN  IF diff < 0
                THEN [out    |-> [st.out EXCEPT ![i] = (diff + BASE_81) % 256],
                      borrow |-> 1]
                ELSE [out    |-> [st.out EXCEPT ![i] = diff % 256],
                      borrow |-> 0]
    IN  ForRange(Step, 1, Len(out), [out |-> out, borrow |-> 0]).out

-----------------------------------------------------------------------------
(* karatsuba *)

\* memcpy(sumA, A1, r);
\* for (i = 0; i < half; i++) { s = sumA[i] + A0[i]; sumA[i] = s % 81;
\*                              c = s / 81; if (c && i+1 < r) sumA[i+1] += c; }
SumHalves(hi, lo) ==
    LET Step(i, sum) ==
            LET s  == sum[i] + lo[i]
                c  == s \div BASE_81
                s1 == [sum EXCEPT ![i] = s % BASE_81]
            IN  IF c # 0 /\ i + 1 <= Len(sum)
                THEN [s1 EXCEPT ![i + 1] = (s1[i + 1] + c) % 256]
                ELSE s1
    IN  ForRange(Step, 1, Len(lo), hi)

\* A buffer of len bytes from calloc whose first Len(d) bytes were written.
PadTo(d, len) == d \o Zeros(len - Len(d))

\* sub_inplace(p3, p1, len2); sub_inplace(p3, p2, len2); memset(out, 0, len2);
\* add_shifted(out, len2, p1, len2, 0); add_shifted(out, len2, p3, len2, half);
\* add_shifted(out, len2, p2, len2, 2*half);
\* The three products are computed before they are combined.
KaratsubaCombine(p1, p2, p3, half, len2) ==
    IF ~(Evaluated(p1) /\ Evaluated(p2) /\ Evaluated(p3)) THEN <<>>
    ELSE AddShifted(AddShifted(AddShifted(Zeros(len2), p1, 0),
                               SubInplace(SubInplace(p3, p1), p2), half),
                    p2, 2 * half)

\* karatsuba(A, B, n, out) with the cutover (16 in the source) as a
\* parameter: the 2n digits written to out.
RECURSIVE Karatsuba(_, _, _, _)
Karatsuba(A, B, n, cut) ==
    IF n <= cut
    THEN NaiveMul(A, B)
    ELSE LET half == n \div 2
             r    == n - half
             A0   == SubSeq(A, 1, half)
             A1   == SubSeq(A, half + 1, n)
             B0   == SubSeq(B, 1, half)
             B1   == SubSeq(B, half + 1, n)
             len2 == 2 * n
         IN  KaratsubaCombine(
                 PadTo(Karatsuba(A0, B0, half, cut), len2),
                 PadTo(Karatsuba(A1, B1, r, cut), len2),
                 PadTo(Karatsuba(SumHalves(A1, A0), SumHalves(B1, B0), r, cut),
                       len2),
                 half, len2)


-----------------------------------------------------------------------------
(* The array harness: the two multipliers on the same pair of arrays, with *)
(* the cutover lowered so that small arrays take the recursive path        *)

MaxArrLen == 3
MaxTestCutover == 2

InitKaratsuba ==
    /\ \E n \in 1..MaxArrLen :
          /\ arrA \in [1..n -> DigitVals]
          /\ arrB \in [1..n -> DigitVals]
    /\ outN = <<>>
    /\ outK = <<>>
    /\ cutover \in 1..MaxTestCutover
    /\ IdleParse
    /\ IdleArith
    /\ IdleMul
    /\ IdleDiv
    /\ IdleStore

RunNaive ==
    /\ outN = <<>>
    /\ outN' = NaiveMul(arrA, arrB)
    /\ UNCHANGED <<arrA, arrB, outK, outsideKara>>

RunKaratsuba ==
    /\ outK = <<>>
    /\ outK' = Karatsuba(arrA, arrB, Len(arrA), cutover)
    /\ UNCHANGED <<arrA, arrB, outN, outsideKara>>

NextKaratsuba == RunNaive \/ RunKaratsuba

SpecKaratsuba == InitKaratsuba /\ [][NextKaratsuba]_vars

-----------------------------------------------------------------------------
(* Claim on the recursive multiplier, under SpecKaratsuba *)

\* C8: for equal-length digit arrays A and B of length n, every digit in
\* 0..80, karatsuba with a lowered cutover writes the same 2n-digit product
\* as naive_mul, for even and odd n.
C8_KaratsubaMatchesNaive ==
    (outN # <<>> /\ outK # <<>>) => outK = outN


-----------------------------------------------------------------------------
(* t81bigint_karatsuba_multiply *)

\* while (out_len > 1 && prod[out_len-1] == 0) out_len--;
\* allocate_digits(out, out_len); memcpy(out->digits, prod, out_len);
KaratsubaMultiply(a, b, cut) ==
    IF Len(a.digits) = 1 /\ a.digits[1] = 0
    THEN [sign |-> 0, digits |-> <<0>>]
    ELSE IF Len(b.digits) = 1 /\ b.digits[1] = 0
    THEN [sign |-> 0, digits |-> <<0>>]
    ELSE LET n    == IF Len(a.digits) > Len(b.digits)
                     THEN Len(a.digits) ELSE Len(b.digits)
             A    == PadTo(a.digits, n)
             B    == PadTo(b.digits, n)
             prod == Karatsuba(A, B, n, cut)
         IN  [sign   |-> IF a.sign # b.sign THEN 1 ELSE 0,
              digits |-> TrimLeadingZeros(prod)]

-----------------------------------------------------------------------------
(* The heap of digit buffers.  A buffer has a number (its address); heap[n] *)
(* is [live, data]; a freed buffer is not live and its number is not used   *)
(* again.  A value in the heap is a struct [sign, len, buf].               *)

\* allocate_digits followed by the memcpy that fills the buffer.
HeapAlloc(h, data) == Append(h, [live |-> TRUE, data |-> data])

\* free(x->digits); free(NULL) does nothing.
HeapFree(h, buf) ==
    IF buf = 0 THEN h ELSE [h EXCEPT ![buf] = [live |-> FALSE, data |-> <<>>]]

\* The first len digits of the buffer of a struct.
DigitsAt(h, x) == SubSeq(h[x.buf].data, 1, x.len)

\* The value a struct stands for.
ValueAt(h, x) == [sign |-> x.sign, digits |-> DigitsAt(h, x)]

-----------------------------------------------------------------------------
(* The multiplication cache *)

\* snprintf(key, sizeof(key), ...): at most sizeof(key)-1 characters.
Truncate(text, n) == IF Len(text) <= n THEN text ELSE SubSeq(text, 1, n)

\* snprintf(key, sizeof(key), "mul:%s:%s", as, bs)
MulKey(a, b) ==
    Truncate(<<"m", "u", "l", ":">> \o ToTritString(a) \o <<":">>
                 \o ToTritString(b),
             KEY_SIZE - 1)

\* The search of mul_cache_lookup passing over slot 0.
RECURSIVE FindKey_SkipFirst(_, _, _)
FindKey_SkipFirst(cache, key, i) ==
    IF i >= MUL_CACHE_SIZE THEN -1
    ELSE IF i > 0 /\ cache[i].used # 0 /\ cache[i].key = key THEN i
    ELSE FindKey_SkipFirst(cache, key, i + 1)

\* for (i = 0; i < MUL_CACHE_SIZE; i++)
\*     if (mul_cache[i].used && strcmp(mul_cache[i].key, key) == 0) ...
\* The slot found, or -1.
RECURSIVE FindKey(_, _, _)
FindKey(cache, key, i) ==
    IF i >= MUL_CACHE_SIZE THEN -1
    ELSE IF cache[i].used # 0 /\ cache[i].key = key THEN i
    ELSE FindKey(cache, key, i + 1)

\* The slot search of mul_cache_store falling back to the last slot.
RECURSIVE FindFree_Last(_, _)
FindFree_Last(cache, i) ==
    IF i >= MUL_CACHE_SIZE THEN MUL_CACHE_SIZE - 1
    ELSE IF cache[i].used = 0 THEN i
    ELSE FindFree_Last(cache, i + 1)

\* for (i = 0; i < MUL_CACHE_SIZE; i++) if (!mul_cache[i].used) { slot = i; break; }
\* if (slot < 0) slot = 0;
RECURSIVE FindFree(_, _)
FindFree(cache, i) ==
    IF i >= MUL_CACHE_SIZE THEN 0
    ELSE IF cache[i].used = 0 THEN i
    ELSE FindFree(cache, i + 1)

\* mul_cache_lookup handing out the cached buffer itself instead of a copy.
MulCacheLookup_Shallow(cache, h, key) ==
    LET i == FindKey(cache, key, 0)
    IN  IF i < 0
        THEN [rc |-> 2, heap |-> h, dst |-> EmptySlot.result]
        ELSE [rc |-> 0, heap |-> h, dst |-> cache[i].result]

\* mul_cache_lookup: on a hit dst gets a buffer of its own holding a copy of
\* the cached digits; 2 when no slot matches.
MulCacheLookup(cache, h, key) ==
    LET i == FindKey(cache, key, 0)
    IN  IF i < 0
        THEN [rc |-> 2, heap |-> h, dst |-> EmptySlot.result]
        ELSE LET src == cache[i].result
                 h1  == HeapAlloc(h, DigitsAt(h, src))
             IN  [rc |-> 0, heap |-> h1,
                  dst |-> [sign |-> src.sign, len |-> src.len, buf |-> Len(h1)]]

\* mul_cache_store: the key copied (at most sizeof(key)-1 characters), the old
\* result of the slot freed, a buffer of its own allocated and filled.
MulCacheStore(cache, h, key, val) ==
    LET slot == FindFree(cache, 0)
        h1   == HeapFree(h, cache[slot].result.buf)
        h2   == HeapAlloc(h1, DigitsAt(h1, val))
    IN  [cache |-> [cache EXCEPT ![slot] =
                       [key    |-> Truncate(key, KEY_SIZE - 1),
                        used   |-> 1,
                        result |-> [sign |-> val.sign, len |-> val.len,
                                    buf |-> Len(h2)]]],
         heap  |-> h2]

\* if (!e) mul_cache_store(key, out);  with out the product just computed
MultiplyComputed(cache, h, key, prod) ==
    LET h1  == HeapAlloc(h, prod.digits)
        out == [sign |-> prod.sign, len |-> Len(prod.digits), buf |-> Len(h1)]
        st  == MulCacheStore(cache, h1, key, out)
    IN  [err |-> 0, out |-> out, cache |-> st.cache, heap |-> st.heap,
         hit |-> FALSE]

\* if (mul_cache_lookup(key, out) == 0) return 0;
\* e = t81bigint_karatsuba_multiply(a, b, out);
MultiplyLookedUp(cache, h, key, lk, a, b, cut) ==
    IF lk.rc = 0
    THEN [err |-> 0, out |-> lk.dst, cache |-> cache, heap |-> lk.heap,
          hit |-> TRUE]
    ELSE MultiplyComputed(cache, h, key, KaratsubaMultiply(a, b, cut))

\* The part of multiply_with_cache after the key is built.
MultiplyKeyed(cache, h, key, a, b, cut) ==
    MultiplyLookedUp(cache, h, key, MulCacheLookup(cache, h, key), a, b, cut)

\* multiply_with_cache(a, b, out)
MultiplyWithCache(cache, h, a, b, cut) ==
    MultiplyKeyed(cache, h, MulKey(a, b), a, b, cut)

-----------------------------------------------------------------------------
(* The multiply caller: it multiplies operands of its pool, keeps the      *)
(* values returned, overwrites their digits and frees them                 *)

\* tritjs_multiply_big(a, b, &result)
Multiply ==
    /\ budget > 0
    /\ \E a \in pool, b \in pool :
          \E r \in {MultiplyWithCache(mul_cache, heap, a, b, cutover)} :
              /\ mul_cache' = r.cache
              /\ heap' = r.heap
              /\ res' = [err |-> r.err, val |-> <<r.out>>, oob |-> FALSE]
              /\ hit' = r.hit
              /\ held' = held \cup {r.out}
              /\ opA' = a
              /\ opB' = b
    /\ last' = "mul"
    /\ budget' = budget - 1
    /\ UNCHANGED <<pool, outsideMul>>

\* tritbig_free(x) on a value multiply returned
FreeValue ==
    /\ \E x \in held :
          /\ heap' = HeapFree(heap, x.buf)
          /\ held' = held \ {x}
    /\ last' = "free"
    /\ UNCHANGED <<opA, opB, res, pool, budget, mul_cache, hit, outsideMul>>

\* x->digits[0] = d on a value multiply returned
OverwriteValue ==
    /\ \E x \in held, d \in {0, BASE_81 - 1} :
          /\ heap[x.buf].data[1] # d
          /\ heap' = [heap EXCEPT ![x.buf].data[1] = d]
    /\ last' = "overwrite"
    /\ UNCHANGED <<opA, opB, res, pool, budget, mul_cache, held, hit,
                   outsideMul>>

NextMul == Multiply \/ FreeValue \/ OverwriteValue


\* n digits d.
Run(d, n) ==
    LET Step(i, s) == Append(s, d)
    IN  ForRange(Step, 1, n, <<>>)

MaxMulLen == 1

\* Operands long enough for the recursive path: runs of one digit, of 17 and
\* 18 digits, of either sign.
LongValues ==
    {[sign |-> sg, digits |-> Run(d, n)] :
        sg \in {0, 1}, d \in DigitVals \ {0},
        n \in {KARATSUBA_CUTOVER + 1, KARATSUBA_CUTOVER + 2}}

\* One multiplication of short and long canonical operands, the cache empty.
InitMul ==
    /\ pool = CanonValues(MaxMulLen) \cup LongValues
    /\ budget = 1
    /\ mul_cache = EmptyCache
    /\ heap = <<>>
    /\ held = {}
    /\ hit = FALSE
    /\ cutover = KARATSUBA_CUTOVER
    /\ IdleParse
    /\ IdleArith
    /\ IdleKara
    /\ IdleDiv
    /\ IdleStore

SpecMul == InitMul /\ [][NextMul]_vars

-----------------------------------------------------------------------------
(* Reference product of two digit sequences: the column sums, then one     *)
(* pass of carries                                                         *)

\* The sum of a[i]*b[j] over the positions with i+j-1 = k.
Column(a, b, k) ==
    LET Step(i, s) ==
            LET j == k + 1 - i
            IN  IF j >= 1 /\ j <= Len(b) THEN s + a[i] * b[j] ELSE s
    IN  ForRange(Step, 1, Len(a), 0)

\* The digits without most-significant zeros; <<0>> for zero.
Canonical(ds) ==
    IF \A i \in 1..Len(ds) : ds[i] = 0
    THEN <<0>>
    ELSE SubSeq(ds, 1, CHOOSE i \in 1..Len(ds) :
                          /\ ds[i] # 0
                          /\ \A j \in (i + 1)..Len(ds) : ds[j] = 0)

\* Position k of the product: the column sum and the carry, split.
CarryColumn(digits, t) ==
    [digits |-> Append(digits, t % BASE_81), carry |-> t \div BASE_81]

\* The canonical base-81 digits of the product of the two magnitudes.
RefProduct(a, b) ==
    LET Step(k, st) == CarryColumn(st.digits, Column(a, b, k) + st.carry)
    IN  Canonical(ForRange(Step, 1, Len(a) + Len(b),
                           [digits |-> <<>>, carry |-> 0]).digits)

\* Negative iff exactly one operand is negative; zero is not negative.
RefProductSign(a, b) ==
    IF IsZero(a) \/ IsZero(b) THEN 0
    ELSE IF a.sign # b.sign THEN 1 ELSE 0

-----------------------------------------------------------------------------
(* Claim on multiply, under SpecMul *)

\* C7: for canonical operands a and b of every length, on the naive and on
\* the Karatsuba path, multiply(a, b) returns the canonical value a*b: its
\* magnitude is the exact product of the magnitudes, its sign is negative iff
\* exactly one operand is negative, and it is Zero with sign 0 when an
\* operand is Zero.
C7_MultiplyCorrect ==
    last = "mul" =>
        /\ res.err = 0
        /\ ValueAt(heap, res.val[1]) =
               [sign   |-> RefProductSign(opA, opB),
                digits |-> RefProduct(opA.digits, opB.digits)]

MaxCalls == 2

\* 81^k: the value parse gives for the text "1" followed by 4k zeros.
Pow81(k) == [sign |-> 0, digits |-> Append(Zeros(k), 1)]

\* The number of base-81 digits from which the text of a value fills the key
\* buffer up to its end.
LongKeyDigits == (KEY_SIZE - 4) \div 4

\* Repeated multiplications of 1, 2 and a value whose text is longer than
\* the key buffer.
InitCache ==
    /\ pool = {[sign |-> 0, digits |-> <<1>>], [sign |-> 0, digits |-> <<2>>],
               Pow81(LongKeyDigits)}
    /\ budget = MaxCalls
    /\ mul_cache = EmptyCache
    /\ heap = <<>>
    /\ held = {}
    /\ hit = FALSE
    /\ cutover = KARATSUBA_CUTOVER
    /\ IdleParse
    /\ IdleArith
    /\ IdleKara
    /\ IdleDiv
    /\ IdleStore

SpecCache == InitCache /\ [][NextMul]_vars

-----------------------------------------------------------------------------
(* Claim on the cache, under SpecCache *)

\* The value a call of multiply_with_cache handed out.
Returned(r) == ValueAt(r.heap, r.out)

\* The value multiply(a, b) returns when the cache is empty.
EmptyCacheProduct(a, b) ==
    Returned(MultiplyWithCache(EmptyCache, <<>>, a, b, KARATSUBA_CUTOVER))

\* C9: after any sequence of earlier multiply calls, multiply(a, b) returns a
\* value equal to the one a computation with an empty cache returns; a hit is
\* never served from an entry stored for another operand pair, also when the
\* key text is longer than the key buffer.
C9_CacheTransparent ==
    last = "mul" =>
        ValueAt(heap, res.val[1]) = EmptyCacheProduct(opA, opB)

-----------------------------------------------------------------------------
(* The caller on short operands, from an empty cache and from a full one  *)

CopyPool == {[sign |-> 0, digits |-> <<d>>] : d \in {1, 2, BASE_81 - 1}}

\* MUL_CACHE_SIZE distinct operand pairs, in the order of the calls.
WarmPairs ==
    LET v(d) == [sign |-> 0, digits |-> <<d>>]
        t    == BASE_81 - 1
    IN  << <<v(1), v(1)>>, <<v(1), v(2)>>, <<v(1), v(t)>>, <<v(2), v(1)>>,
           <<v(2), v(2)>>, <<v(2), v(t)>>, <<v(t), v(1)>>, <<v(t), v(2)>> >>

\* tritbig_free on the value a call handed out.
FreeReturned(r) == [cache |-> r.cache, heap |-> HeapFree(r.heap, r.out.buf)]

\* The cache and the heap after the caller has multiplied each of WarmPairs
\* and freed each value returned: every slot is used.
Warm ==
    LET Step(k, st) ==
            FreeReturned(MultiplyWithCache(st.cache, st.heap, WarmPairs[k][1],
                                           WarmPairs[k][2], KARATSUBA_CUTOVER))
    IN  ForRange(Step, 1, Len(WarmPairs), [cache |-> EmptyCache, heap |-> <<>>])

InitCopies ==
    /\ pool = CopyPool
    /\ budget = MaxCalls
    /\ \/ mul_cache = EmptyCache /\ heap = <<>>
       \/ mul_cache = Warm.cache /\ heap = Warm.heap
    /\ held = {}
    /\ hit = FALSE
    /\ cutover = KARATSUBA_CUTOVER
    /\ IdleParse
    /\ IdleArith
    /\ IdleKara
    /\ IdleDiv
    /\ IdleStore

SpecCopies == InitCopies /\ [][NextMul]_vars

-----------------------------------------------------------------------------
(* Claim on the ownership of cache entries, under SpecCopies *)

\* What the cache holds: for each slot its flag, key, sign, len and the
\* buffer its digits pointer leads to.
CacheView(cache, h) ==
    [i \in 0..(MUL_CACHE_SIZE - 1) |->
        [used |-> cache[i].used,
         key  |-> cache[i].key,
         sign |-> cache[i].result.sign,
         len  |-> cache[i].result.len,
         mem  |-> IF cache[i].result.buf = 0
                  THEN <<>> ELSE h[cache[i].result.buf]]]

\* C10: cache entries are deep copies the cache owns: freeing or overwriting
\* the digits of a value multiply returned, from a hit or from a miss, leaves
\* the digits, len and sign of every cache entry unchanged; a call of
\* multiply, which may store into a slot or evict one, leaves every value
\* returned before unchanged.
C10_CacheDeepCopies ==
    [][ /\ last' \in {"free", "overwrite"} =>
               CacheView(mul_cache', heap') = CacheView(mul_cache, heap)
        /\ last' = "mul" =>
               \A x \in held : x \in held' /\ heap'[x.buf] = heap[x.buf]
      ]_vars

\* A value returned from a hit has been freed, an earlier value is still
\* held, slot 0 has been stored into again after the cache was full, and the
\* entry of the last operand pair is alive with the product in it.
C10_Witness ==
    /\ last = "free"
    /\ hit
    /\ res.val[1] \notin held
    /\ ~heap[res.val[1].buf].live
    /\ held # {}
    /\ \A i \in 0..(MUL_CACHE_SIZE - 1) : mul_cache[i].used = 1
    /\ mul_cache[0].key # MulKey(WarmPairs[1][1], WarmPairs[1][2])
    /\ \E i \in 0..(MUL_CACHE_SIZE - 1) :
          /\ mul_cache[i].key = MulKey(opA, opB)
          /\ heap[mul_cache[i].result.buf].live
          /\ ValueAt(heap, mul_cache[i].result) = EmptyCacheProduct(opA, opB)

-----------------------------------------------------------------------------
(* tritjs_power_big *)

ERR_OVERFLOW == 4
ERR_NEGATIVE == 6
POWER_MAX_EXP == 1000

\* return (x->len==1 && x->digits[0]<81);
IsSmallValue(x) == Len(x.digits) = 1 /\ x.digits[1] < BASE_81

\* int val = x->digits[0]; if (x->sign) val = -val;
ToSmallInt(x) == IF x.sign # 0 THEN -x.digits[1] ELSE x.digits[1]

\* A call that returns an error before it assigns *result.
Refused(code, cache, h) ==
    [err |-> code, out |-> EmptySlot.result, cache |-> cache, heap |-> h]

\* t81bigint_free(*result); **result = tmp;
PowerMoved(st, r) ==
    [err |-> r.err, out |-> r.out, cache |-> r.cache,
     heap |-> HeapFree(r.heap, st.out.buf)]

\* One round of the loop: multiply_with_cache(*result, base, &tmp), then the
\* old digits freed and tmp moved into *result.
PowerStep(base, cut, st) ==
    PowerMoved(st, MultiplyWithCache(st.cache, st.heap,
                                     ValueAt(st.heap, st.out), base, cut))

\* allocate_digits(*result, 1); digits[0] = 1; sign = 0;
\* for (i = 0; i < e; i++) { ... }
PowerLoop(cache, h, base, e, cut) ==
    LET Step(i, st) == PowerStep(base, cut, st)
    IN  ForRange(Step, 1, e,
                 [err |-> 0,
                  out |-> [sign |-> 0, len |-> 1, buf |-> Len(h) + 1],
                  cache |-> cache,
                  heap |-> HeapAlloc(h, <<1>>)])

\* if (base->sign && (e%2)==1) (*result)->sign = 1;
PowerSign(base, e, st) ==
    IF base.sign # 0 /\ e % 2 = 1 THEN [st EXCEPT !.out.sign = 1] ELSE st

\* tritjs_power_big(base, exp, &result)
TritjsPowerBig(cache, h, base, exp, cut) ==
    IF exp.sign # 0 THEN Refused(ERR_NEGATIVE, cache, h)
    ELSE IF ~IsSmallValue(exp) THEN Refused(ERR_OVERFLOW, cache, h)
    ELSE IF ToSmallInt(exp) > POWER_MAX_EXP THEN Refused(ERR_OVERFLOW, cache, h)
    ELSE PowerSign(base, ToSmallInt(exp),
                   PowerLoop(cache, h, base, ToSmallInt(exp), cut))

\* What the caller holds after a call: on an error the result pointer is the
\* one it had before.
Handed(r) ==
    IF r.err = 0
    THEN [err |-> 0, val |-> <<r.out>>, oob |-> FALSE]
    ELSE [res EXCEPT !.err = r.err]

\* The exponents the caller passes: small ones, the first one for which the
\* 18-digit power of 80 is multiplied again, a negative one and 81, the
\* first of two digits.
PowExps ==
    {[sign |-> 0, digits |-> <<e>>] : e \in {0, 1, 2, 3, KARATSUBA_CUTOVER + 3}}
        \cup {[sign |-> 1, digits |-> <<1>>], [sign |-> 0, digits |-> <<0, 1>>]}

\* The bases: 0 and 1, 2, 80 of either sign.
PowBases ==
    {Zero} \cup {[sign |-> sg, digits |-> <<d>>] :
                    sg \in {0, 1}, d \in {1, 2, BASE_81 - 1}}

\* tritjs_power_big(base, exp, &result) called on a base and an exponent
Power ==
    /\ budget > 0
    /\ \E base \in pool, exp \in PowExps :
          \E r \in {TritjsPowerBig(mul_cache, heap, base, exp, cutover)} :
              /\ mul_cache' = r.cache
              /\ heap' = r.heap
              /\ res' = Handed(r)
              /\ held' = IF r.err = 0 THEN held \cup {r.out} ELSE held
              /\ opA' = base
              /\ opB' = exp
    /\ last' = "pow"
    /\ budget' = budget - 1
    /\ UNCHANGED <<pool, hit, outsideMul>>

NextPower == Power

MaxPowCalls == 2

\* The caller before its first call of power: the cache empty.
InitPower ==
    /\ pool = PowBases
    /\ budget = MaxPowCalls
    /\ mul_cache = EmptyCache
    /\ heap = <<>>
    /\ held = {}
    /\ hit = FALSE
    /\ cutover = KARATSUBA_CUTOVER
    /\ IdleParse
    /\ IdleArith
    /\ IdleKara
    /\ IdleDiv
    /\ IdleStore

SpecPower == InitPower /\ [][NextPower]_vars

-----------------------------------------------------------------------------
(* Claims on power, under SpecPower *)

\* The canonical digits of the e-th power of a magnitude.
RefPower(digits, e) ==
    LET Step(i, p) == RefProduct(p, digits)
    IN  ForRange(Step, 1, e, <<1>>)

\* The exponent as an integer.
ExpValue(exp) == ToInt(exp)

\* C11: for every canonical base and every permitted exponent e (0..1000),
\* whatever earlier calls left in the cache, power(base, e) succeeds and
\* returns the canonical value base^e, with base^0 = 1; the result is
\* negative iff base is negative and e is odd.
C11_PowerCorrect ==
    (last = "pow" /\ ExpValue(opB) >= 0 /\ ExpValue(opB) <= POWER_MAX_EXP) =>
        /\ res.err = 0
        /\ ValueAt(heap, res.val[1]) =
               [sign   |-> IF opA.sign = 1 /\ ExpValue(opB) % 2 = 1
                           THEN 1 ELSE 0,
                digits |-> RefPower(opA.digits, ExpValue(opB))]

\* C12: power returns NegativeExponent (6) when the exponent is negative and
\* Overflow (4) when it is greater than 1000, and hands out no result in
\* either case; it succeeds for every exponent in 0..1000.
C12_PowerErrors ==
    [][last' = "pow" =>
          /\ ExpValue(opB') < 0 =>
                 res'.err = ERR_NEGATIVE /\ res'.val = res.val
          /\ ExpValue(opB') > POWER_MAX_EXP =>
                 res'.err = ERR_OVERFLOW /\ res'.val = res.val
          /\ (ExpValue(opB') >= 0 /\ ExpValue(opB') <= POWER_MAX_EXP) =>
                 res'.err = 0
      ]_vars

-----------------------------------------------------------------------------
(* tritjs_factorial_big *)

FACTORIAL_MAX == 20

\* The long long f is held as its base-81 digits, least significant first,
\* with no most-significant zero (<<>> is 0): f % BASE_81 is the first digit
\* and f / BASE_81 is the rest.  20! is below 2^63, so f never wraps.
\* f *= i, digit by digit from position k with the carry c.
RECURSIVE LongTimes(_, _, _, _)
LongTimes(f, i, k, c) ==
    IF k > Len(f)
    THEN IF c = 0 THEN f ELSE LongTimes(Append(f, 0), i, k, c)
    ELSE LongTimes([f EXCEPT ![k] = (f[k] * i + c) % BASE_81], i, k + 1,
                   (f[k] * i + c) \div BASE_81)

\* long long f = 1; for (int i = 1; i <= val; i++) f *= i;
FactorialProduct(val) ==
    LET Step(i, f) == LongTimes(f, i, 1, 0)
    IN  ForRange(Step, 1, val, <<1>>)

\* while (carry) { val2 = digits[i] + carry; digits[i] = val2 % BASE_81;
\*                 carry = val2 / BASE_81; i++;
\*                 if (i >= len && carry) allocate_digits(*result, len + 1); }
\* i is the position about to be read, counted from 1.
RECURSIVE FactorialCarry(_, _, _)
FactorialCarry(digits, i, carry) ==
    IF carry = 0 THEN digits
    ELSE IF i >= Len(digits) /\ (digits[i] + carry) \div BASE_81 # 0
    THEN FactorialCarry(AllocateDigits(Len(digits) + 1), i + 1,
                        (digits[i] + carry) \div BASE_81)
    ELSE FactorialCarry([digits EXCEPT ![i] = (digits[i] + carry) % BASE_81],
                        i + 1, (digits[i] + carry) \div BASE_81)

\* while (f > 0) { digit = f % BASE_81; f /= BASE_81; carry = digit; i = 0; ... }
RECURSIVE FactorialStore(_, _)
FactorialStore(f, digits) ==
    IF Len(f) = 0 THEN digits
    ELSE FactorialStore(Tail(f), FactorialCarry(digits, 1, Head(f)))

\* The early returns without the test of a->sign.
FactorialRefusal_NoSign(a) ==
    IF ~IsSmallValue(a) THEN ERR_OVERFLOW
    ELSE IF ToSmallInt(a) > FACTORIAL_MAX THEN ERR_OVERFLOW
    ELSE 0

\* if (a->sign) return 6; if (!is_small_value(a)) return 4;
\* val = to_small_int(a); if (val > 20) return 4;
FactorialRefusal(a) ==
    IF a.sign # 0 THEN ERR_NEGATIVE
    ELSE IF ~IsSmallValue(a) THEN ERR_OVERFLOW
    ELSE IF ToSmallInt(a) > FACTORIAL_MAX THEN ERR_OVERFLOW
    ELSE 0

\* tritjs_factorial_big(a, &result): the error code and, when it is 0, the
\* value stored in *result.
TritjsFactorialBig(a) ==
    IF FactorialRefusal(a) # 0
    THEN [err |-> FactorialRefusal(a), val |-> <<>>]
    ELSE [err |-> 0,
          val |-> <<[sign   |-> 0,
                     digits |-> TrimLeadingZeros(
                                   FactorialStore(
                                       FactorialProduct(ToSmallInt(a)),
                                       AllocateDigits(1)))]>>]

\* *result after a call: on an error the pointer the caller had before.
Stored(r) ==
    IF r.err = 0
    THEN [err |-> 0, val |-> r.val, oob |-> FALSE]
    ELSE [res EXCEPT !.err = r.err]

MaxFactArg == 23
MaxFactCalls == 2

\* The arguments: -MaxFactArg..MaxFactArg, 80, and 86 and -86 of two digits.
FactArgs ==
    {[sign |-> 0, digits |-> <<d>>] : d \in 0..MaxFactArg}
        \cup {[sign |-> 1, digits |-> <<d>>] : d \in 1..MaxFactArg}
        \cup {[sign |-> 0, digits |-> <<BASE_81 - 1>>]}
        \cup {[sign |-> sg, digits |-> <<5, 1>>] : sg \in {0, 1}}

\* tritjs_factorial_big(a, &result) called on an argument
Factorial ==
    /\ budget > 0
    /\ \E a \in FactArgs :
          /\ res' = Stored(TritjsFactorialBig(a))
          /\ opA' = a
    /\ last' = "fact"
    /\ budget' = budget - 1
    /\ UNCHANGED <<opB, pool, mul_cache, heap, held, hit, outsideMul>>

NextFactorial == Factorial

InitFactorial ==
    /\ IdleParse
    /\ IdleArith
    /\ IdleKara
    /\ IdleDiv
    /\ IdleStore
    /\ cutover = KARATSUBA_CUTOVER
    /\ pool = {}
    /\ budget = MaxFactCalls
    /\ mul_cache = EmptyCache
    /\ heap = <<>>
    /\ held = {}
    /\ hit = FALSE

SpecFactorial == InitFactorial /\ [][NextFactorial]_vars

-----------------------------------------------------------------------------
(* Claims on factorial, under SpecFactorial *)

\* The canonical digits of n!.
RefFactorial(n) ==
    LET Step(i, p) == RefProduct(p, <<i>>)
    IN  ForRange(Step, 1, n, <<1>>)

\* C13: for every a with 0 <= a <= 20, factorial(a) succeeds and returns the
\* canonical positive value a!: 1 for a = 0 and a = 1, and all the base-81
\* digits of a! for larger a.
C13_FactorialValue ==
    (last = "fact" /\ ToInt(opA) >= 0 /\ ToInt(opA) <= FACTORIAL_MAX) =>
        /\ res.err = 0
        /\ res.val = <<[sign |-> 0, digits |-> RefFactorial(ToInt(opA))]>>

\* C14: factorial returns NegativeInput (6) when a is negative and Overflow
\* (4) when a is greater than 20, and leaves the caller's result as it was
\* in either case; it succeeds for every a in 0..20.
C14_FactorialErrors ==
    [][last' = "fact" =>
          /\ ToInt(opA') < 0 =>
                 res'.err = ERR_NEGATIVE /\ res'.val = res.val
          /\ ToInt(opA') > FACTORIAL_MAX =>
                 res'.err = ERR_OVERFLOW /\ res'.val = res.val
          /\ (ToInt(opA') >= 0 /\ ToInt(opA') <= FACTORIAL_MAX) =>
                 res'.err = 0 /\ res'.val # <<>>
      ]_vars

\* A negative argument of two digits was refused with code 6 after an
\* earlier call had succeeded, and the earlier result is still the caller's.
C14_Witness ==
    /\ last = "fact"
    /\ budget = 0
    /\ opA.sign = 1
    /\ Len(opA.digits) = 2
    /\ res.err = ERR_NEGATIVE
    /\ res.val # <<>>

-----------------------------------------------------------------------------
(* tritjs_divide_big *)

ERR_DIVZERO == 3
ERR_PRECISION == 7
PRECISION_MIN == 1
PRECISION_MAX == 10

\* A T81Float: the sign and the base-81 digits of the integer part (i_len of
\* them) and of the fraction (f_len of them), least significant first.
Float(sign, integer, fraction) ==
    [sign |-> sign, integer |-> integer, fraction |-> fraction]

\* The early returns with the divisor tested before the precision.
DivideRefusal_ZeroFirst(b, prec) ==
    IF AllZero(b.digits) THEN ERR_DIVZERO
    ELSE IF prec < PRECISION_MIN \/ prec > PRECISION_MAX THEN ERR_PRECISION
    ELSE 0

\* if (precision<1||precision>10) return 7;
\* all0 = every digit of b is 0; if (all0) return 3;
DivideRefusal(b, prec) ==
    IF prec < PRECISION_MIN \/ prec > PRECISION_MAX THEN ERR_PRECISION
    ELSE IF AllZero(b.digits) THEN ERR_DIVZERO
    ELSE 0

\* tritjs_divide_big(a, b, &result, precision): the error code and, when it
\* is 0, what was written into *result: the quotient is the one digit 0, the
\* remainder has the sign and a copy of the digits of a.
TritjsDivideBig(a, b, prec) ==
    IF DivideRefusal(b, prec) # 0
    THEN [err |-> DivideRefusal(b, prec), val |-> <<>>]
    ELSE [err |-> 0,
          val |-> <<[quotient  |-> Float(0, <<0>>, <<>>),
                     remainder |-> Float(a.sign, a.digits, <<>>)]>>]

MaxDivLen == 1

\* The precisions passed: both ends of 1..10 and the values next to them.
DivPrecisions ==
    {PRECISION_MIN - 1, PRECISION_MIN, PRECISION_MAX, PRECISION_MAX + 1}

\* tritjs_divide_big(a, b, &result, precision) called on canonical operands;
\* result is the caller's structure, which holds what the call before wrote.
Divide ==
    /\ budget > 0
    /\ \E a \in CanonValues(MaxDivLen), b \in CanonValues(MaxDivLen),
          prec \in DivPrecisions :
          /\ res' = Stored(TritjsDivideBig(a, b, prec))
          /\ opA' = a
          /\ opB' = b
          /\ precision' = prec
    /\ last' = "div"
    /\ budget' = budget - 1
    /\ UNCHANGED <<parseVars, karaVars, cutover, storeVars, pool, mul_cache, heap, held,
                   hit>>

NextDivide == Divide

\* One call; the caller's structure is empty or holds what an earlier
\* call, divide(x, 1, 1), wrote.
InitDivide ==
    /\ opA = Zero
    /\ opB = Zero
    /\ last = "none"
    /\ \/ res = NoRes
       \/ \E x \in CanonValues(MaxDivLen) :
              res = Stored(TritjsDivideBig(x, [sign |-> 0, digits |-> <<1>>],
                                           PRECISION_MIN))
    /\ IdleParse
    /\ IdleKara
    /\ IdleDiv
    /\ IdleStore
    /\ cutover = KARATSUBA_CUTOVER
    /\ pool = {}
    /\ budget = 1
    /\ mul_cache = EmptyCache
    /\ heap = <<>>
    /\ held = {}
    /\ hit = FALSE

SpecDivide == InitDivide /\ [][NextDivide]_vars

-----------------------------------------------------------------------------
(* Claims on divide, under SpecDivide *)

\* The integer a T81Float without fraction digits stands for.
FloatInt(f) == IF f.sign = 1 THEN -Val81(f.integer) ELSE Val81(f.integer)

Abs(n) == IF n < 0 THEN -n ELSE n

\* C15: for every a, every non-zero b and every precision in 1..10,
\* divide(a, b, precision) succeeds with a quotient and a remainder such that
\* quotient*b + remainder = a and |remainder| < |b|.
C15_DivideInvariant ==
    (/\ last = "div"
     /\ ~IsZero(opB)
     /\ precision >= PRECISION_MIN
     /\ precision <= PRECISION_MAX) =>
        /\ res.err = 0
        /\ Len(res.val[1].quotient.fraction) = 0
        /\ Len(res.val[1].remainder.fraction) = 0
        /\ FloatInt(res.val[1].quotient) * ToInt(opB)
               + FloatInt(res.val[1].remainder) = ToInt(opA)
        /\ Abs(FloatInt(res.val[1].remainder)) < Abs(ToInt(opB))

\* C16: divide returns DivisionByZero (3) when the divisor is zero and the
\* precision is in 1..10, and PrecisionExceeded (7) when the precision is
\* outside 1..10, whatever the divisor; in both cases the caller's result
\* structure is what it was before the call, so no quotient or remainder is
\* written together with an error.
C16_DivideErrors ==
    [][last' = "div" =>
          /\ (precision' < PRECISION_MIN \/ precision' > PRECISION_MAX) =>
                 res'.err = ERR_PRECISION
          /\ (/\ IsZero(opB')
              /\ precision' >= PRECISION_MIN
              /\ precision' <= PRECISION_MAX) =>
                 res'.err = ERR_DIVZERO
          /\ res'.err # 0 => res'.val = res.val
      ]_vars

\* A division by zero with a precision out of range was refused with code 7
\* after an earlier call had written a result, which is still there.
C16_Witness ==
    /\ last = "div"
    /\ IsZero(opB)
    /\ precision > PRECISION_MAX
    /\ res.err = ERR_PRECISION
    /\ res.val # <<>>
    /\ res.val[1].remainder.integer # opA.digits

-----------------------------------------------------------------------------
(* A session: parse, add, subtract, multiply, power and factorial called    *)
(* one after the other, each on values the calls before returned            *)

MaxCalcCalls == 2
MaxCalcExp == 3

\* The values the session starts from: 1, -2, 80 and a run of 18 digits 80,
\* long enough for the recursive multiplication.
CalcSeeds ==
    {[sign |-> 0, digits |-> <<1>>], [sign |-> 1, digits |-> <<2>>],
     [sign |-> 0, digits |-> <<BASE_81 - 1>>],
     [sign |-> 0, digits |-> Run(BASE_81 - 1, KARATSUBA_CUTOVER + 2)]}

\* The texts the session parses.
CalcTexts ==
    {<<>>, <<"0">>, <<"-", "0">>, <<"-", "1">>, <<"0", "1", "2">>, <<"3">>,
     <<"1", "0", "0", "0", "0">>}

\* The pool with the value of a call that succeeded.
Kept(r) == IF r.err = 0 THEN pool \cup {r.val[1]} ELSE pool

\* What a call of multiply or power returned, as the caller reads it.
Read(r) ==
    IF r.err = 0
    THEN [err |-> 0, val |-> <<Returned(r)>>, oob |-> FALSE]
    ELSE [err |-> r.err, val |-> <<>>, oob |-> FALSE]

\* parse_trit_string(s, &out)
CalcParse ==
    /\ budget > 0
    /\ \E s \in CalcTexts :
          \E r \in {ParseTritString(s)} :
              /\ str' = s
              /\ res' = [err |-> r.err, val |-> r.out, oob |-> FALSE]
              /\ pool' = Kept(res')
    /\ last' = "parse"
    /\ budget' = budget - 1
    /\ UNCHANGED <<pstage, perr, pout, sout, opA, opB, karaVars, cutover, storeVars,
                   mul_cache, heap, held, hit, precision>>

\* tritjs_add_big(a, b, &result)
CalcAdd ==
    /\ budget > 0
    /\ \E a \in pool, b \in pool :
          /\ opA' = a
          /\ opB' = b
          /\ res' = TritjsAddBig(a, b)
          /\ pool' = Kept(res')
    /\ last' = "add"
    /\ budget' = budget - 1
    /\ UNCHANGED <<parseVars, karaVars, cutover, storeVars, mul_cache, heap, held, hit,
                   precision>>

\* tritjs_subtract_big(a, b, &result)
CalcSubtract ==
    /\ budget > 0
    /\ \E a \in pool, b \in pool :
          /\ opA' = a
          /\ opB' = b
          /\ res' = TritjsSubtractBig(a, b)
          /\ pool' = Kept(res')
    /\ last' = "sub"
    /\ budget' = budget - 1
    /\ UNCHANGED <<parseVars, karaVars, cutover, storeVars, mul_cache, heap, held, hit,
                   precision>>

\* tritjs_multiply_big(a, b, &result)
CalcMultiply ==
    /\ budget > 0
    /\ \E a \in pool, b \in pool :
          \E r \in {MultiplyWithCache(mul_cache, heap, a, b, cutover)} :
              /\ opA' = a
              /\ opB' = b
              /\ mul_cache' = r.cache
              /\ heap' = r.heap
              /\ hit' = r.hit
              /\ held' = held \cup {r.out}
              /\ res' = Read(r)
              /\ pool' = Kept(res')
    /\ last' = "mul"
    /\ budget' = budget - 1
    /\ UNCHANGED <<parseVars, karaVars, cutover, storeVars, precision>>

\* tritjs_power_big(base, exp, &result); the session asks for no power
\* above MaxCalcExp.
CalcPower ==
    /\ budget > 0
    /\ \E base \in pool, exp \in pool :
          /\ IsSmallValue(exp) => exp.digits[1] <= MaxCalcExp
          /\ \E r \in {TritjsPowerBig(mul_cache, heap, base, exp, cutover)} :
                /\ opA' = base
                /\ opB' = exp
                /\ mul_cache' = r.cache
                /\ heap' = r.heap
                /\ held' = IF r.err = 0 THEN held \cup {r.out} ELSE held
                /\ res' = Read(r)
                /\ pool' = Kept(res')
    /\ last' = "pow"
    /\ budget' = budget - 1
    /\ UNCHANGED <<parseVars, karaVars, cutover, storeVars, hit, precision>>

\* tritjs_factorial_big(a, &result)
CalcFactorial ==
    /\ budget > 0
    /\ \E a \in pool :
          \E r \in {TritjsFactorialBig(a)} :
              /\ opA' = a
              /\ res' = [err |-> r.err, val |-> r.val, oob |-> FALSE]
              /\ pool' = Kept(res')
    /\ last' = "fact"
    /\ budget' = budget - 1
    /\ UNCHANGED <<parseVars, opB, karaVars, cutover, storeVars, mul_cache, heap, held,
                   hit, precision>>

NextCalc ==
    \/ CalcParse
    \/ CalcAdd
    \/ CalcSubtract
    \/ CalcMultiply
    \/ CalcPower
    \/ CalcFactorial

InitCalc ==
    /\ pool = CalcSeeds
    /\ budget = MaxCalcCalls
    /\ mul_cache = EmptyCache
    /\ heap = <<>>
    /\ held = {}
    /\ hit = FALSE
    /\ cutover = KARATSUBA_CUTOVER
    /\ IdleParse
    /\ IdleArith
    /\ IdleKara
    /\ IdleDiv
    /\ IdleStore

SpecCalc == InitCalc /\ [][NextCalc]_vars

-----------------------------------------------------------------------------
(* Claims on the values of a session, under SpecCalc *)

\* len >= 1, every digit in 0..80, the most-significant digit not 0 unless
\* len = 1.
CanonicalForm(v) ==
    /\ Len(v.digits) >= 1
    /\ \A i \in 1..Len(v.digits) : v.digits[i] \in 0..(BASE_81 - 1)
    /\ Len(v.digits) > 1 => v.digits[Len(v.digits)] # 0

\* C17: every value parse, add, subtract, multiply, power or factorial
\* returns with code 0 is in canonical form: len >= 1, every digit in 0..80,
\* and the most-significant digit non-zero unless len = 1.  The operands of
\* every call are values of the session, themselves in canonical form.
C17_ResultsCanonical ==
    /\ \A v \in pool : CanonicalForm(v)
    /\ (last # "none" /\ res.err = 0) =>
           /\ res.val # <<>>
           /\ CanonicalForm(res.val[1])
           /\ ~res.oob

\* A product of the 18-digit seed, computed on the recursive path, came back
\* shorter than the 36 digits of the product buffer: the trimming acted.
C17_Witness ==
    /\ last = "mul"
    /\ res.err = 0
    /\ ~hit
    /\ Len(opA.digits) > KARATSUBA_CUTOVER
    /\ Len(res.val[1].digits) > 1
    /\ Len(res.val[1].digits) < 2 * Len(opA.digits)
    /\ res.val[1] \in pool

\* C18: in every value a sequence of parse, add, subtract, multiply, power
\* and factorial calls produces, a zero magnitude (len = 1, digits[0] = 0)
\* has the sign 0: no value is a zero magnitude with the negative sign.
C18_NoNegativeZero ==
    \A v \in pool : v.digits = <<0>> => v.sign = 0

\* The value add(a, b) returns.
Sum(a, b) == TritjsAddBig(a, b).val[1]

\* The value multiply(a, b) returns when called with the cache and the heap
\* as the call r has left them.
After(r, a, b) ==
    MultiplyWithCache(r.cache, r.heap, a, b, KARATSUBA_CUTOVER)

\* l is multiply(multiply(a, b), c) as called next; multiply(b, c) and then
\* multiply(a, multiply(b, c)), called after it, return the value l returned.
SameRegrouped(l, a, b, c) ==
    \E bc \in {After(l, b, c)} :
        \E r \in {After(bc, a, Returned(bc))} :
            Returned(l) = Returned(r)

\* C19: addition and multiplication are commutative and associative on the
\* values of a session, whatever the cache holds: after add(a, b) returned,
\* add(b, a) gives the same value and add(add(a, b), c) = add(a, add(b, c))
\* for every value c at hand; after multiply(a, b) returned, multiply(b, a)
\* called next gives the same value, and multiply(multiply(a, b), c) called
\* next gives the value multiply(a, multiply(b, c)) gives after it.
C19_CommutativeAssociative ==
    /\ (last = "add" /\ CanonicalForm(opA) /\ CanonicalForm(opB)) =>
           /\ res.val[1] = Sum(opB, opA)
           /\ \A c \in pool : Sum(res.val[1], c) = Sum(opA, Sum(opB, c))
    /\ (last = "mul" /\ CanonicalForm(opA) /\ CanonicalForm(opB)) =>
           /\ res.val[1] = Returned(MultiplyWithCache(mul_cache, heap, opB, opA,
                                                      KARATSUBA_CUTOVER))
           /\ \A c \in pool :
                  \E l \in {MultiplyWithCache(mul_cache, heap, res.val[1], c,
                                              KARATSUBA_CUTOVER)} :
                      SameRegrouped(l, opA, opB, c)

-----------------------------------------------------------------------------
(* The caller of tritjs_to_string on a canonical value *)

\* The values printed: canonical values of up to MaxArithLen digits and every
\* value of one digit.
StringArgs ==
    CanonValues(MaxArithLen)
        \cup {[sign |-> 0, digits |-> <<d>>] : d \in 0..(BASE_81 - 1)}
        \cup {[sign |-> 1, digits |-> <<d>>] : d \in 1..(BASE_81 - 1)}

InitString ==
    /\ opA \in StringArgs
    /\ opB = Zero
    /\ last = "none"
    /\ res = NoRes
    /\ IdleParse
    /\ IdleKara
    /\ IdleDiv
    /\ IdleStore
    /\ cutover = KARATSUBA_CUTOVER
    /\ IdleMul

\* tritjs_to_string(x, &s): x is read through a const pointer and the
\* divisions run on tmpCopy, a buffer of its own.
PrintValue ==
    /\ last = "none"
    /\ sout' = ToTritString(opA)
    /\ res' = [res EXCEPT !.err = 0]
    /\ last' = "str"
    /\ UNCHANGED <<str, pstage, perr, pout, opA, opB, karaVars, cutover, storeVars,
                   mulVars, precision>>

NextString == PrintValue

SpecString == InitString /\ [][NextString]_vars

-----------------------------------------------------------------------------
(* Claim on to_string, under SpecString *)

\* C20: for a canonical value x, to_string(x) is "0" when x is Zero and
\* otherwise an optional '-', present iff x is negative, followed by the
\* base-3 digits of |x|, most significant first and with no leading zero; the
\* text and its terminating NUL are at most 4*len+2 characters, and x is
\* left as it was.
C20_ToStringFormat ==
    /\ [](last = "str" =>
            /\ IsZero(opA) => sout = <<"0">>
            /\ ~IsZero(opA) =>
                   /\ WellFormed(sout)
                   /\ sout[1] = "-" <=> opA.sign = 1
                   /\ DigitsOf(sout)[1] # "0"
                   /\ Val3(DigitsOf(sout)) = Val81(opA.digits)
            /\ Len(sout) + 1 <= 4 * Len(opA.digits) + 2)
    /\ [][last' = "str" => opA' = opA]_vars

\* A negative value of MaxArithLen digits, the top one 80, was printed: the
\* text has the sign and 4*len digits, and fills the buffer.
C20_Witness ==
    /\ last = "str"
    /\ opA.sign = 1
    /\ Len(opA.digits) = MaxArithLen
    /\ opA.digits[MaxArithLen] = BASE_81 - 1
    /\ Len(sout) + 1 = 4 * Len(opA.digits) + 2

-----------------------------------------------------------------------------
(* Storage: the buffers, mappings, descriptors and temporary files behind   *)
(* the T81BigInt structs.  A region is known by its size in bytes, by top,  *)
(* the position of its highest non-zero digit (0 when every digit is zero), *)
(* and by live, the bytes of it still allocated or mapped.  A pointer is    *)
(* the number of its region, 0 for NULL and -1 for MAP_FAILED.  A storage   *)
(* state is [rc, x, sys, total]: the code returned, the struct worked on,   *)
(* the resources of the process and total_mapped_bytes.                     *)

\* #define T81_MMAP_THRESHOLD (500 * 1024)
T81_MMAP_THRESHOLD == 500 * 1024

\* calloc(1, sizeof(T81BigInt)), memset(x, 0, sizeof(*x))
Cleared == [sign |-> 0, digits |-> 0, len |-> 0, is_mapped |-> 0, fd |-> 0]

\* A process that has acquired nothing yet.
NoStore == [regions |-> <<>>, fds |-> <<>>, trace |-> <<>>]

\* calloc(bytesNeeded, 1) or mmap of a file just sized by ftruncate: zeroes.
Region(mapped, bytesNeeded) ==
    [mapped |-> mapped, size |-> bytesNeeded, top |-> 0, live |-> bytesNeeded]

\* The threshold test taking a buffer of exactly the threshold for small.
IsSmall_Inclusive(bytesNeeded) == bytesNeeded <= T81_MMAP_THRESHOLD

\* if (bytesNeeded < T81_MMAP_THRESHOLD)
IsSmall(bytesNeeded) == bytesNeeded < T81_MMAP_THRESHOLD

\* allocate_digits(x, lengthNeeded); fail names the library call that fails,
\* "none" when every call succeeds.  The buffer x had before is left as it is.
allocate_digits(st, lengthNeeded, fail) ==
    LET bytesNeeded == IF lengthNeeded = 0 THEN 1 ELSE lengthNeeded
        x0     == [st.x EXCEPT !.len = lengthNeeded, !.is_mapped = 0,
                               !.fd = -1]
        ptr    == Len(st.sys.regions) + 1
        fd     == Len(st.sys.fds) + 1
        opened == [st.sys EXCEPT
                      !.fds = Append(@, [open |-> TRUE, linked |-> TRUE])]
        closed == [opened EXCEPT !.fds[fd].open = FALSE,
                                 !.trace = Append(@, <<"close", fd>>)]
    IN  IF IsSmall(bytesNeeded)
        THEN IF fail = "calloc"
             THEN [st EXCEPT !.rc = 1, !.x = [x0 EXCEPT !.digits = 0]]
             ELSE [st EXCEPT
                      !.rc = 0,
                      !.x = [x0 EXCEPT !.digits = ptr],
                      !.sys.regions = Append(@, Region(FALSE, bytesNeeded))]
        ELSE IF fail = "mkstemp"
        THEN [st EXCEPT !.rc = 8, !.x = x0]
        ELSE IF fail = "ftruncate"
        THEN [st EXCEPT !.rc = 8, !.x = [x0 EXCEPT !.fd = fd],
                        !.sys = closed]
        ELSE IF fail = "mmap"
        THEN [st EXCEPT !.rc = 8,
                        !.x = [x0 EXCEPT !.fd = fd, !.digits = -1],
                        !.sys = closed]
        ELSE [st EXCEPT
                 !.rc = 0,
                 !.x = [x0 EXCEPT !.fd = fd, !.digits = ptr,
                                  !.is_mapped = 1],
                 !.sys = [opened EXCEPT
                             !.regions = Append(@, Region(TRUE, bytesNeeded)),
                             !.fds[fd].linked = FALSE],
                 !.total = @ + bytesNeeded]

\* free(p); free(NULL) does nothing.
Freed(s, p) ==
    IF p = 0 THEN s
    ELSE [s EXCEPT !.regions[p].live = 0,
                   !.trace = Append(@, <<"free", p>>)]

\* munmap(p, bytes); close(fd);
Unmapped(s, p, bytes, fd) ==
    [s EXCEPT !.regions[p].live = IF bytes < @ THEN @ - bytes ELSE 0,
              !.fds[fd].open = FALSE,
              !.trace = @ \o << <<"munmap", p, bytes>>, <<"close", fd>> >>]

\* The body of t81bigint_free before the memset.
ReleaseDigits(st) ==
    LET x     == st.x
        bytes == IF x.len = 0 THEN 1 ELSE x.len
    IN  IF x.is_mapped # 0 /\ x.digits # 0 /\ x.digits # -1
        THEN [st EXCEPT !.rc = 0,
                        !.sys = Unmapped(@, x.digits, bytes, x.fd),
                        !.total = @ - bytes]
        ELSE [st EXCEPT !.rc = 0, !.sys = Freed(@, x.digits)]

\* t81bigint_free leaving the struct as it was.
t81bigint_free_Kept(st) == ReleaseDigits(st)

\* t81bigint_free(x): the buffer released, then memset(x, 0, sizeof(*x)).
t81bigint_free(st) == [ReleaseDigits(st) EXCEPT !.x = Cleared]

\* The digits an operation writes into the buffer of x, known by the
\* position of the highest non-zero one.
Written(st, top) == [st EXCEPT !.sys.regions[st.x.digits].top = top]

\* while (x->len > 1 && x->digits[x->len-1] == 0) x->len--;
trim_leading_zeros(st) ==
    LET top == st.sys.regions[st.x.digits].top
    IN  IF st.x.len > 1 /\ top < st.x.len
        THEN [st EXCEPT !.x.len = IF top > 1 THEN top ELSE 1]
        ELSE st

\* The position of the highest non-zero digit, 0 when there is none.
TopOf(digits) ==
    LET n == TrimLen(digits, Len(digits))
    IN  IF n = 0 \/ digits[n] = 0 THEN 0 ELSE n

\* One round of while (carry) of parse_trit_string_base81:
\* e = allocate_digits(out, out->len + 1); if (e) return e;
GrowStore(n, st) ==
    IF st.rc # 0 THEN st ELSE allocate_digits(st, n, "none")

\* for (; str[pos]; pos++) of parse_trit_string_base81, with the allocations
\* it makes; digits is the content of the buffer out has.
RECURSIVE ParseStoreLoop(_, _, _, _)
ParseStoreLoop(text, pos, digits, st) ==
    IF st.rc # 0 THEN st
    ELSE IF pos > Len(text)
    THEN trim_leading_zeros(Written(st, TopOf(digits)))
    ELSE IF Ord(text[pos]) < Ord("0") \/ Ord(text[pos]) > Ord("2")
    THEN [st EXCEPT !.rc = ERR_INVALID]
    ELSE LET m     == ParseMulAdd(digits, 1, Ord(text[pos]) - Ord("0"))
             grown == ParseGrow(m.digits, m.carry)
         IN  ParseStoreLoop(text, pos + 1, grown,
                            ForRange(GrowStore, Len(digits) + 1, Len(grown),
                                     st))

\* parse_trit_string_base81(str, out) on a struct just calloc'ed
parse_trit_string_base81(st, text) ==
    IF Len(text) = 0 THEN [st EXCEPT !.rc = ERR_INVALID]
    ELSE LET first == allocate_digits(st, 1, "none")
             sign  == IF text[1] = "-" THEN 1 ELSE 0
         IN  ParseStoreLoop(text, IF text[1] = "-" THEN 2 ELSE 1,
                            AllocateDigits(1),
                            [first EXCEPT !.x.sign = sign])

\* parse_trit_string: *out = calloc(...); e = parse_trit_string_base81(...);
\* if (e) { free(*out); *out = NULL; }   Only the struct is freed.
parse_trit_string(st, text) ==
    LET r == parse_trit_string_base81([st EXCEPT !.x = Cleared], text)
    IN  IF r.rc # 0 THEN [r EXCEPT !.x = Cleared] ELSE r

-----------------------------------------------------------------------------
(* The storage caller: it allocates values, has operations build results,   *)
(* parses texts and frees what it holds                                     *)

MaxObjs == 2
MaxStoreCalls == 4

\* Lengths on both sides of the threshold.
StoreLengths ==
    {0, 1, 2, T81_MMAP_THRESHOLD - 1, T81_MMAP_THRESHOLD,
     T81_MMAP_THRESHOLD + 1}

Failures == {"none", "calloc", "mkstemp", "ftruncate", "mmap"}

\* The library call allocate_digits makes first for this length fails or
\* none does.
FailuresOf(n) ==
    IF IsSmall(IF n = 0 THEN 1 ELSE n) THEN {"none", "calloc"}
    ELSE Failures \ {"calloc"}

StoreTexts ==
    {<<"1">>, <<"3">>, <<"-", "2">>, <<"1", "0", "0", "0", "0">>,
     <<"1", "0", "0", "0", "3">>}

outsideStore ==
    <<parseVars, opA, opB, karaVars, cutover, pool, mul_cache, heap, held,
      hit, precision, thr>>

\* The storage state of struct i.
At(i) == [rc |-> 0, x |-> objs[i], sys |-> sys, total |-> total_mapped_bytes]

\* The struct, the resources and the counter after a call on struct i; the
\* struct of a call that failed is freed by its caller.
Settled(i, r, call, arg) ==
    /\ objs' = [objs EXCEPT ![i] = IF r.rc = 0 THEN r.x ELSE Cleared]
    /\ sys' = r.sys
    /\ total_mapped_bytes' = r.total
    /\ res' = [err |-> r.rc, obj |-> i, arg |-> arg, was |-> objs[i]]
    /\ last' = call
    /\ budget' = budget - 1
    /\ UNCHANGED outsideStore

\* x = calloc(1, sizeof(T81BigInt)); allocate_digits(x, n)
StoreAllocate ==
    /\ budget > 0
    /\ \E i \in 1..MaxObjs, n \in StoreLengths :
          /\ objs[i] = Cleared
          /\ \E fail \in FailuresOf(n) :
                Settled(i, allocate_digits(At(i), n, fail), "allocate", n)

\* An arithmetic operation building its result as tritjs_add_big does:
\* allocate_digits(*result, len), the digits written, trim_leading_zeros.
StoreResult ==
    /\ budget > 0
    /\ \E i \in 1..MaxObjs, n \in StoreLengths \ {0} :
          /\ objs[i] = Cleared
          /\ \E top \in {0, 1, n - 1, n}, fail \in FailuresOf(n) :
                \E r \in {allocate_digits(At(i), n, fail)} :
                    Settled(i,
                            IF r.rc # 0 THEN r
                            ELSE trim_leading_zeros(Written(r, top)),
                            "result", n)

\* parse_trit_string(text, &x)
StoreParse ==
    /\ budget > 0
    /\ \E i \in 1..MaxObjs, text \in StoreTexts :
          /\ objs[i] = Cleared
          /\ Len(sys.regions) + Len(text) <= 2 * MaxStoreCalls
          /\ Settled(i, parse_trit_string(At(i), text), "parse", text)

\* t81bigint_free(x)
StoreFree ==
    /\ budget > 0
    /\ \E i \in 1..MaxObjs :
          \E r \in {t81bigint_free(At(i))} :
              /\ objs' = [objs EXCEPT ![i] = r.x]
              /\ sys' = r.sys
              /\ total_mapped_bytes' = r.total
              /\ res' = [err |-> 0, obj |-> i, arg |-> 0, was |-> objs[i]]
    /\ last' = "free"
    /\ budget' = budget - 1
    /\ UNCHANGED outsideStore

NextStore == StoreAllocate \/ StoreResult \/ StoreParse \/ StoreFree

InitStore ==
    /\ objs = [i \in 1..MaxObjs |-> Cleared]
    /\ sys = NoStore
    /\ total_mapped_bytes = 0
    /\ thr = <<>>
    /\ budget = MaxStoreCalls
    /\ last = "none"
    /\ res = NoRes
    /\ opA = Zero
    /\ opB = Zero
    /\ pool = {}
    /\ mul_cache = EmptyCache
    /\ heap = <<>>
    /\ held = {}
    /\ hit = FALSE
    /\ IdleParse
    /\ IdleKara
    /\ IdleDiv
    /\ cutover = KARATSUBA_CUTOVER

SpecStore == InitStore /\ [][NextStore]_vars

-----------------------------------------------------------------------------
(* Claims about storage *)

\* The release events recorded for region p, and for descriptor fd.
ReleasesOf(p) ==
    {k \in 1..Len(sys.trace) :
        sys.trace[k][1] \in {"free", "munmap"} /\ sys.trace[k][2] = p}

ClosesOf(fd) ==
    {k \in 1..Len(sys.trace) :
        sys.trace[k][1] = "close" /\ sys.trace[k][2] = fd}

\* What t81bigint_free(x) is to release for the struct x as it was before
\* the call: nothing for a cleared struct, the buffer of a small value, the
\* mapping and then the descriptor of a mapped one.
DueReleases(x) ==
    IF x.is_mapped = 1
    THEN << <<"munmap", x.digits>>, <<"close", x.fd>> >>
    ELSE IF x.digits # 0 THEN << <<"free", x.digits>> >>
    ELSE <<>>

\* The release events a step added, without the byte counts.
Released(before, after) ==
    [k \in 1..(Len(after) - Len(before)) |->
        <<after[Len(before) + k][1], after[Len(before) + k][2]>>]

\* C21: in every sequence of allocations, results, parses and frees no
\* buffer, mapping or descriptor is released twice; t81bigint_free(x)
\* releases exactly what x holds (free for a small buffer, munmap and then
\* close for a mapped one) and leaves x cleared; a free of a cleared struct
\* releases nothing and changes no resource and no counter.
C21_FreeOnce ==
    /\ [](/\ \A p \in 1..Len(sys.regions) : Cardinality(ReleasesOf(p)) <= 1
          /\ \A fd \in 1..Len(sys.fds) : Cardinality(ClosesOf(fd)) <= 1)
    /\ [][last' = "free" =>
             /\ objs'[res'.obj] = Cleared
             /\ Len(sys'.trace) >= Len(sys.trace)
             /\ SubSeq(sys'.trace, 1, Len(sys.trace)) = sys.trace
             /\ Released(sys.trace, sys'.trace) = DueReleases(res'.was)
             /\ res'.was = Cleared =>
                   sys' = sys /\ total_mapped_bytes' = total_mapped_bytes]_vars

\* A struct that is cleared has just been freed again, after a mapped value
\* and nothing else was allocated and released: munmap once, close once.
C21_Witness ==
    /\ last = "free"
    /\ res.was = Cleared
    /\ \A i \in 1..MaxObjs : objs[i] = Cleared
    /\ Len(sys.regions) = 1
    /\ sys.regions[1].mapped
    /\ Cardinality(ReleasesOf(1)) = 1
    /\ Cardinality(ClosesOf(1)) = 1

\* C22: allocate_digits(x, length) returning 0 leaves x->len = length on a
\* buffer of its own of max(length, 1) bytes, all zero; the buffer is a heap
\* buffer and x not mapped when that byte count is below 500 KiB, otherwise
\* it is a mapping, x is mapped, its descriptor is open and the temporary
\* file has no directory entry any more.
C22_AllocateContract ==
    [][(last' = "allocate" /\ res'.err = 0) =>
          LET x     == objs'[res'.obj]
              bytes == IF res'.arg = 0 THEN 1 ELSE res'.arg
          IN  /\ x.len = res'.arg
              /\ x.digits = Len(sys.regions) + 1
              /\ Len(sys'.regions) = Len(sys.regions) + 1
              /\ sys'.regions[x.digits].size = bytes
              /\ sys'.regions[x.digits].live = bytes
              /\ sys'.regions[x.digits].top = 0
              /\ IF bytes < 500 * 1024
                 THEN /\ x.is_mapped = 0
                      /\ ~sys'.regions[x.digits].mapped
                      /\ sys'.fds = sys.fds
                 ELSE /\ x.is_mapped = 1
                      /\ sys'.regions[x.digits].mapped
                      /\ x.fd = Len(sys.fds) + 1
                      /\ sys'.fds[x.fd].open
                      /\ ~sys'.fds[x.fd].linked]_vars

\* A value of exactly the threshold length has been allocated: it is mapped.
C22_Witness ==
    /\ last = "allocate"
    /\ res.err = 0
    /\ res.arg = T81_MMAP_THRESHOLD
    /\ objs[res.obj].is_mapped = 1
    /\ objs[res.obj].len = T81_MMAP_THRESHOLD

\* C25: whenever an operation has returned, every buffer or mapping still
\* allocated is the buffer of a struct the caller holds and every open
\* descriptor is the descriptor of a mapped struct the caller holds.
C25_NothingLeaked ==
    /\ \A p \in 1..Len(sys.regions) :
          sys.regions[p].live > 0 =>
              \E i \in 1..MaxObjs : objs[i].digits = p
    /\ \A fd \in 1..Len(sys.fds) :
          sys.fds[fd].open =>
              \E i \in 1..MaxObjs :
                  objs[i].is_mapped = 1 /\ objs[i].fd = fd

\* The bytes of mappings still mapped.
MappedBytes(s) ==
    LET Step(p, n) == IF s.regions[p].mapped THEN n + s.regions[p].live ELSE n
    IN  ForRange(Step, 1, Len(s.regions), 0)

\* C30: total_mapped_bytes is the number of bytes currently mapped, every
\* munmap is given the size the region was mapped with, and the counter is 0
\* when no struct holds a value.
C30_MappedBytesCounted ==
    /\ total_mapped_bytes = MappedBytes(sys)
    /\ \A k \in 1..Len(sys.trace) :
          sys.trace[k][1] = "munmap" =>
              sys.trace[k][3] = sys.regions[sys.trace[k][2]].size
    /\ (\A i \in 1..MaxObjs : objs[i] = Cleared) => total_mapped_bytes = 0

-----------------------------------------------------------------------------
(* The example caller: it parses two texts, multiplies the values and       *)
(* prints the product, as the example main of TritJS.cweb does              *)

MaxExampleLen == 2

\* The texts of one to MaxExampleLen characters 0, 1, 2.
ExampleTexts == UNION {[1..n -> TritChars] : n \in 1..MaxExampleLen}

InitExample ==
    /\ str \in ExampleTexts \X ExampleTexts
    /\ pstage = "input"
    /\ perr = 0
    /\ pout = <<>>
    /\ sout = <<>>
    /\ IdleArith
    /\ IdleKara
    /\ IdleDiv
    /\ IdleStore
    /\ cutover = KARATSUBA_CUTOVER
    /\ IdleMul

\* parse_trit_string(a, &A); parse_trit_string(b, &B);
ExampleParse ==
    /\ pstage = "input"
    /\ \E ra \in {ParseTritString(str[1])}, rb \in {ParseTritString(str[2])} :
          /\ ra.err = 0
          /\ rb.err = 0
          /\ opA' = ra.out[1]
          /\ opB' = rb.out[1]
          /\ pout' = ra.out \o rb.out
    /\ pstage' = "parsed"
    /\ UNCHANGED <<str, perr, sout, last, res, karaVars, cutover, mulVars,
                   precision, storeVars>>

\* tritjs_multiply_big(A, B, &prod);
ExampleMultiply ==
    /\ pstage = "parsed"
    /\ \E r \in {MultiplyWithCache(mul_cache, heap, opA, opB, cutover)} :
          /\ mul_cache' = r.cache
          /\ heap' = r.heap
          /\ hit' = r.hit
          /\ held' = held \cup {r.out}
          /\ res' = [err |-> r.err, val |-> <<ValueAt(r.heap, r.out)>>,
                     oob |-> FALSE]
    /\ last' = "mul"
    /\ pstage' = "multiplied"
    /\ UNCHANGED <<str, perr, pout, sout, opA, opB, karaVars, cutover, pool,
                   budget, precision, storeVars>>

\* tritjs_to_string(prod, &s);
ExamplePrint ==
    /\ pstage = "multiplied"
    /\ res.err = 0
    /\ sout' = ToTritString(res.val[1])
    /\ pstage' = "printed"
    /\ UNCHANGED <<str, perr, pout, arithVars, karaVars, cutover, mulVars,
                   precision, storeVars>>

NextExample == ExampleParse \/ ExampleMultiply \/ ExamplePrint

SpecExample == InitExample /\ [][NextExample]_vars

-----------------------------------------------------------------------------
(* The caller of multiply and power on a cache that is empty, one slot     *)
(* short of full, or full                                                  *)

MaxSlotCalls == 2

\* Three one-digit operands and a negative one long enough for karatsuba to
\* split it and for its key to be cut.
SlotPool ==
    {[sign |-> 0, digits |-> <<d>>] : d \in {2, 3, BASE_81 - 1}}
        \cup {[sign |-> 1, digits |-> Run(BASE_81 - 1, KARATSUBA_CUTOVER + 2)]}

\* The cache and the heap after the caller has multiplied the first k of
\* WarmPairs and freed each value returned: slots 0..k-1 are used.
WarmUpTo(k) ==
    LET Step(n, st) ==
            FreeReturned(MultiplyWithCache(st.cache, st.heap, WarmPairs[n][1],
                                           WarmPairs[n][2], KARATSUBA_CUTOVER))
    IN  ForRange(Step, 1, k, [cache |-> EmptyCache, heap |-> <<>>])

WarmCounts == {0, MUL_CACHE_SIZE - 1, MUL_CACHE_SIZE}

InitSlots ==
    /\ pool = SlotPool
    /\ budget = MaxSlotCalls
    /\ \E k \in WarmCounts :
          \E w \in {WarmUpTo(k)} : mul_cache = w.cache /\ heap = w.heap
    /\ held = {}
    /\ hit = FALSE
    /\ cutover = KARATSUBA_CUTOVER
    /\ IdleParse
    /\ IdleArith
    /\ IdleKara
    /\ IdleDiv
    /\ IdleStore

\* The exponents the caller passes: none, two and three rounds.
SlotExps == {[sign |-> 0, digits |-> <<e>>] : e \in {0, 2, 3}}

\* tritjs_power_big(base, exp, &result)
SlotPower ==
    /\ budget > 0
    /\ \E base \in pool, exp \in SlotExps :
          \E r \in {TritjsPowerBig(mul_cache, heap, base, exp, cutover)} :
              /\ mul_cache' = r.cache
              /\ heap' = r.heap
              /\ res' = Handed(r)
              /\ held' = IF r.err = 0 THEN held \cup {r.out} ELSE held
              /\ opA' = base
              /\ opB' = exp
    /\ last' = "pow"
    /\ budget' = budget - 1
    /\ UNCHANGED <<pool, hit, outsideMul>>

NextSlots == Multiply \/ SlotPower \/ FreeValue

SpecSlots == InitSlots /\ [][NextSlots]_vars

-----------------------------------------------------------------------------
(* Claims on the slots of the cache, under SpecSlots *)

SlotNumbers == 0..(MUL_CACHE_SIZE - 1)

UsedSlots(cache) == {i \in SlotNumbers : cache[i].used # 0}

\* The slot a store into this cache is to take: the lowest unused one, slot
\* 0 when every slot is used.
DueSlot(cache) ==
    IF UsedSlots(cache) = SlotNumbers THEN 0
    ELSE CHOOSE i \in SlotNumbers \ UsedSlots(cache) :
             \A j \in SlotNumbers \ UsedSlots(cache) : i <= j

\* C26: the cache never holds more than 8 used entries, and the used slots
\* are the lowest ones.  A multiply that misses stores its key and its product
\* in the lowest unused slot, or in slot 0 when all 8 are used, and leaves
\* every other slot as it was; a multiply that hits changes no slot.  Whatever
\* a call stores (a power stores once per round), a slot that was used is
\* changed only if it is slot 0 and the cache is full afterwards, and when
\* all 8 slots were used, slots 1..7 keep their keys and values.
C26_SlotPolicy ==
    /\ [](/\ Cardinality(UsedSlots(mul_cache)) <= 8
          /\ \A i \in UsedSlots(mul_cache) :
                \A j \in 0..i : j \in UsedSlots(mul_cache))
    /\ [][\E before \in {CacheView(mul_cache, heap)},
             after \in {CacheView(mul_cache', heap')} :
             /\ \A i \in UsedSlots(mul_cache) :
                   \/ after[i] = before[i]
                   \/ i = 0 /\ UsedSlots(mul_cache') = SlotNumbers
             /\ UsedSlots(mul_cache) = SlotNumbers =>
                   \A i \in 1..7 : after[i] = before[i]
             /\ (last' = "mul" /\ hit') => after = before
             /\ (last' = "mul" /\ ~hit') =>
                   \E s \in {DueSlot(mul_cache)} :
                       /\ after[s].used = 1
                       /\ after[s].key = MulKey(opA', opB')
                       /\ after[s].sign = res'.val[1].sign
                       /\ after[s].len = res'.val[1].len
                       /\ after[s].mem = heap'[res'.val[1].buf]
                       /\ heap'[res'.val[1].buf].live
                       /\ \A i \in SlotNumbers \ {s} : after[i] = before[i]
         ]_vars

\* Starting one slot short of full, one multiply has taken slot 7 and the
\* next one, a miss again, has just overwritten slot 0.
C26_Witness ==
    /\ last = "mul"
    /\ ~hit
    /\ budget = MaxSlotCalls - 2
    /\ UsedSlots(mul_cache) = SlotNumbers
    /\ mul_cache[0].key = MulKey(opA, opB)
    /\ mul_cache[0].key # MulKey(WarmPairs[1][1], WarmPairs[1][2])
    /\ mul_cache[MUL_CACHE_SIZE - 1].key
           # MulKey(WarmPairs[MUL_CACHE_SIZE][1], WarmPairs[MUL_CACHE_SIZE][2])
    /\ mul_cache[1].key = MulKey(WarmPairs[2][1], WarmPairs[2][2])

\* C29: no two used slots hold the same key, and every used slot holds a
\* value in canonical form (a zero is not negative) in a live buffer that no
\* other slot and no value handed to the caller points to.
C29_SlotsDistinct ==
    \A i \in UsedSlots(mul_cache) :
        /\ \A j \in UsedSlots(mul_cache) :
              i # j => /\ mul_cache[i].key # mul_cache[j].key
                       /\ mul_cache[i].result.buf # mul_cache[j].result.buf
        /\ mul_cache[i].result.buf \in 1..Len(heap)
        /\ heap[mul_cache[i].result.buf].live
        /\ mul_cache[i].result.len = Len(heap[mul_cache[i].result.buf].data)
        /\ CanonicalForm(ValueAt(heap, mul_cache[i].result))
        /\ IsZero(ValueAt(heap, mul_cache[i].result)) =>
               mul_cache[i].result.sign = 0
        /\ \A x \in held : x.buf # mul_cache[i].result.buf

\* The cache is full, slot 0 has been stored into again, and the last call
\* was served from an entry while the caller still holds values.
C29_Witness ==
    /\ last = "mul"
    /\ hit
    /\ held # {}
    /\ UsedSlots(mul_cache) = SlotNumbers
    /\ mul_cache[0].key # MulKey(WarmPairs[1][1], WarmPairs[1][2])
    /\ \E i \in SlotNumbers : mul_cache[i].key = MulKey(opA, opB)

-----------------------------------------------------------------------------
(* The operations as they act on the structs and buffers of their operands. *)
(* An operand is a struct [sign, len, buf] whose digits are heap[buf].  A    *)
(* call leaves [err, out, heap, cache, a, b]: the code, the struct handed    *)
(* out, the heap, the cache, and the structs of the two operands as they     *)
(* are after the call.                                                       *)

\* *result = calloc(...); allocate_digits(*result, len); the digits stored.
ResultAt(h, v) ==
    [sign |-> v.sign, len |-> Len(v.digits), buf |-> Len(h) + 1]

\* tritjs_add_big(A, B, &result): A and B are only read.
AddAt(cache, h, A, B) ==
    LET r == TritjsAddBig(ValueAt(h, A), ValueAt(h, B))
    IN  [err |-> r.err, out |-> ResultAt(h, r.val[1]),
         heap |-> HeapAlloc(h, r.val[1].digits), cache |-> cache,
         a |-> A, b |-> B]

\* Subtraction flipping the sign of B itself and leaving it flipped.
SubtractAt_InPlace(cache, h, A, B) ==
    AddAt(cache, h, A, [B EXCEPT !.sign = IF B.sign = 0 THEN 1 ELSE 0])

\* tritjs_subtract_big(A, B, &result): tmp = *B; tmp.sign = !oldsign;
\* e = tritjs_add_big(A, &tmp, result);  tmp is a local struct, B is not
\* assigned.
SubtractAt(cache, h, A, B) ==
    LET tmp == [B EXCEPT !.sign = IF B.sign = 0 THEN 1 ELSE 0]
    IN  [AddAt(cache, h, A, tmp) EXCEPT !.b = B]

\* tritjs_multiply_big(a, b, &result)
MultiplyAt(cache, h, A, B) ==
    LET r == MultiplyWithCache(cache, h, ValueAt(h, A), ValueAt(h, B),
                               KARATSUBA_CUTOVER)
    IN  [err |-> r.err, out |-> r.out, heap |-> r.heap, cache |-> r.cache,
         a |-> A, b |-> B]

\* tritjs_power_big(base, exp, &result)
PowerAt(cache, h, A, B) ==
    LET r == TritjsPowerBig(cache, h, ValueAt(h, A), ValueAt(h, B),
                            KARATSUBA_CUTOVER)
    IN  [err |-> r.err, out |-> r.out, heap |-> r.heap, cache |-> r.cache,
         a |-> A, b |-> B]

\* tritjs_factorial_big(a, &result)
FactorialAt(cache, h, A, B) ==
    LET r == TritjsFactorialBig(ValueAt(h, A))
    IN  IF r.err # 0
        THEN [err |-> r.err, out |-> EmptySlot.result, heap |-> h,
              cache |-> cache, a |-> A, b |-> B]
        ELSE [err |-> 0, out |-> ResultAt(h, r.val[1]),
              heap |-> HeapAlloc(h, r.val[1].digits), cache |-> cache,
              a |-> A, b |-> B]

\* tritjs_divide_big(a, b, &result, precision): quotient.integer and
\* remainder.integer are buffers from calloc; out is the remainder.
DivideAt(cache, h, A, B) ==
    LET r == TritjsDivideBig(ValueAt(h, A), ValueAt(h, B), PRECISION_MIN)
    IN  IF r.err # 0
        THEN [err |-> r.err, out |-> EmptySlot.result, heap |-> h,
              cache |-> cache, a |-> A, b |-> B]
        ELSE LET h1 == HeapAlloc(h, r.val[1].quotient.integer)
             IN  [err |-> 0,
                  out |-> [sign |-> r.val[1].remainder.sign,
                           len |-> Len(r.val[1].remainder.integer),
                           buf |-> Len(h1) + 1],
                  heap |-> HeapAlloc(h1, r.val[1].remainder.integer),
                  cache |-> cache, a |-> A, b |-> B]

\* tritjs_to_string(x, &s): tmp = *in is a local struct; the divisions by 3
\* run on tmpCopy, a buffer of its own, which is freed; nothing but the text
\* is handed out.  The value "0" is printed without a copy.
ToStringAt(cache, h, A, B) ==
    LET h1 == HeapAlloc(h, DigitsAt(h, A))
    IN  [err |-> 0, out |-> EmptySlot.result,
         heap |-> IF A.len = 1 /\ DigitsAt(h, A) = <<0>> THEN h
                  ELSE HeapFree(h1, Len(h1)),
         cache |-> cache, a |-> A, b |-> B]

-----------------------------------------------------------------------------
(* The caller of the operations on structs it holds: each value handed out  *)
(* is kept and may be an operand of the next call                           *)

MaxOperandCalls == 2

\* The structs the caller starts with: 2, -3 and 0, each in its own buffer.
SeedStructs ==
    << [sign |-> 0, len |-> 1, buf |-> 1], [sign |-> 1, len |-> 1, buf |-> 2],
       [sign |-> 0, len |-> 1, buf |-> 3] >>

SeedHeap == HeapAlloc(HeapAlloc(HeapAlloc(<<>>, <<2>>), <<3>>), <<0>>)

InitOperands ==
    /\ objs = SeedStructs
    /\ heap = SeedHeap
    /\ mul_cache = EmptyCache
    /\ budget = MaxOperandCalls
    /\ last = "none"
    /\ res = NoRes
    /\ opA = Zero
    /\ opB = Zero
    /\ pool = {}
    /\ held = {}
    /\ hit = FALSE
    /\ sys = <<>>
    /\ total_mapped_bytes = 0
    /\ thr = <<>>
    /\ IdleParse
    /\ IdleKara
    /\ IdleDiv
    /\ cutover = KARATSUBA_CUTOVER

\* The state after a call on the structs numbered i and j: the operand
\* structs as the call left them, the value handed out kept when keep says
\* so.
Called(i, j, r, call, keep) ==
    /\ objs' = IF r.err = 0 /\ keep
               THEN Append([objs EXCEPT ![i] = r.a, ![j] = r.b], r.out)
               ELSE [objs EXCEPT ![i] = r.a, ![j] = r.b]
    /\ heap' = r.heap
    /\ mul_cache' = r.cache
    /\ res' = [err |-> r.err, val |-> IF r.err = 0 THEN <<r.out>> ELSE <<>>,
               oob |-> FALSE]
    /\ opA' = ValueAt(heap, objs[i])
    /\ opB' = ValueAt(heap, objs[j])
    /\ last' = call
    /\ budget' = budget - 1
    /\ UNCHANGED <<parseVars, karaVars, cutover, pool, held, hit, precision,
                   sys, total_mapped_bytes, thr>>

OperandAdd ==
    /\ budget > 0
    /\ \E i \in 1..Len(objs), j \in 1..Len(objs) :
          Called(i, j, AddAt(mul_cache, heap, objs[i], objs[j]), "add", TRUE)

OperandSubtract ==
    /\ budget > 0
    /\ \E i \in 1..Len(objs), j \in 1..Len(objs) :
          Called(i, j, SubtractAt(mul_cache, heap, objs[i], objs[j]), "sub",
                 TRUE)

OperandMultiply ==
    /\ budget > 0
    /\ \E i \in 1..Len(objs), j \in 1..Len(objs) :
          Called(i, j, MultiplyAt(mul_cache, heap, objs[i], objs[j]), "mul",
                 TRUE)

OperandPower ==
    /\ budget > 0
    /\ \E i \in 1..Len(objs), j \in 1..Len(objs) :
          Called(i, j, PowerAt(mul_cache, heap, objs[i], objs[j]), "pow",
                 TRUE)

OperandFactorial ==
    /\ budget > 0
    /\ \E i \in 1..Len(objs) :
          Called(i, i, FactorialAt(mul_cache, heap, objs[i], objs[i]),
                 "fact", TRUE)

OperandDivide ==
    /\ budget > 0
    /\ \E i \in 1..Len(objs), j \in 1..Len(objs) :
          Called(i, j, DivideAt(mul_cache, heap, objs[i], objs[j]), "div",
                 FALSE)

OperandToString ==
    /\ budget > 0
    /\ \E i \in 1..Len(objs) :
          Called(i, i, ToStringAt(mul_cache, heap, objs[i], objs[i]), "str",
                 FALSE)

NextOperands ==
    \/ OperandAdd
    \/ OperandSubtract
    \/ OperandMultiply
    \/ OperandPower
    \/ OperandFactorial
    \/ OperandDivide
    \/ OperandToString

SpecOperands == InitOperands /\ [][NextOperands]_vars

\* C23: a call of add, subtract, multiply, power, factorial, divide or
\* to_string leaves the sign, the len and the digits of every value the
\* caller holds, its operands among them, as they were, with their buffers
\* still allocated; the value a successful arithmetic call hands out has a
\* buffer allocated by that call, still allocated on return, that is the
\* buffer of no value the caller held and of no cache entry.
C23_OperandsImmutable ==
    [][last' \in {"add", "sub", "mul", "pow", "fact", "div", "str"} =>
          /\ \A k \in 1..Len(objs) :
                /\ objs'[k] = objs[k]
                /\ heap'[objs[k].buf] = heap[objs[k].buf]
                /\ heap'[objs[k].buf].live
          /\ (res'.err = 0 /\ last' # "str") =>
                /\ res'.val[1].buf > Len(heap)
                /\ res'.val[1].buf <= Len(heap')
                /\ heap'[res'.val[1].buf].live
                /\ res'.val[1].len = Len(heap'[res'.val[1].buf].data)
                /\ \A k \in 1..Len(objs) : objs[k].buf # res'.val[1].buf
                /\ \A s \in 0..(MUL_CACHE_SIZE - 1) :
                      mul_cache'[s].result.buf # res'.val[1].buf]_vars

\* subtract(x, x) has been called on a value an earlier call returned: the
\* same struct was both operands, the difference is a new zero, and the
\* operand is still the value it was.
C23_Witness ==
    /\ last = "sub"
    /\ res.err = 0
    /\ Len(objs) = Len(SeedStructs) + 2
    /\ opA = opB
    /\ opA.digits # <<0>>
    /\ ValueAt(heap, res.val[1]) = Zero
    /\ \E k \in (Len(SeedStructs) + 1)..(Len(objs) - 1) :
          ValueAt(heap, objs[k]) = opA

-----------------------------------------------------------------------------
(* multiply when one allocation fails.  site names the allocation that      *)
(* returns NULL in the call, "none" when all succeed; an allocation the     *)
(* call does not reach cannot fail.  A read or write through the NULL       *)
(* pointer is undefined: the call is killed there (err = -1, nothing is     *)
(* returned) or it survives and runs on.                                    *)

AllocSites ==
    {"none", "result", "as", "bs", "lookup", "operand", "temporary", "store"}

\* An allocation failure that is tested: the code returned, nothing stored.
Declined(code, cache, h) ==
    [err |-> code, out |-> EmptySlot.result, cache |-> cache, heap |-> h,
     hit |-> FALSE, fault |-> "none"]

\* A call that ran to its end; kind records a read or write through NULL
\* on the way, "none" when there was none.
Ended(r, kind) ==
    [err |-> r.err, out |-> r.out, cache |-> r.cache, heap |-> r.heap,
     hit |-> r.hit, fault |-> kind]

\* The process killed at a read or write through NULL.
Killed(kind, cache, h) ==
    [err |-> -1, out |-> EmptySlot.result, cache |-> cache, heap |-> h,
     hit |-> FALSE, fault |-> kind]

\* if (in->len == 1 && in->digits[0] == 0) { *out = strdup("0"); return 0; }
PrintsZero(x) == Len(x.digits) = 1 /\ x.digits[1] = 0

\* What printf-style formatting of a NULL string leaves in the key when the
\* read does not kill the process.
NullText == <<"(", "n", "u", "l", "l", ")">>

\* snprintf(key, sizeof(key), "mul:%s:%s", as, bs)
KeyOfTexts(as, bs) ==
    Truncate(<<"m", "u", "l", ":">> \o as \o <<":">> \o bs, KEY_SIZE - 1)

\* mul_cache_store when allocate_digits fails: the return value is not
\* tested; the key is written, the old result freed, used set, len and sign
\* set, and memcpy writes val->len bytes through the NULL digits pointer.
MulCacheStoreFailing(cache, h, key, val) ==
    LET slot == FindFree(cache, 0)
    IN  [cache |-> [cache EXCEPT ![slot] =
                       [key    |-> Truncate(key, KEY_SIZE - 1),
                        used   |-> 1,
                        result |-> [sign |-> val.sign, len |-> val.len,
                                    buf |-> 0]]],
         heap  |-> HeapFree(h, cache[slot].result.buf)]

\* if (!e) mul_cache_store(key, out); with the allocation in the store
\* failing
StoreFailing(cache, h, key, prod, survive) ==
    LET h1  == HeapAlloc(h, prod.digits)
        out == [sign |-> prod.sign, len |-> Len(prod.digits), buf |-> Len(h1)]
        st  == MulCacheStoreFailing(cache, h1, key, out)
    IN  IF survive
        THEN [err |-> 0, out |-> out, cache |-> st.cache, heap |-> st.heap,
              hit |-> FALSE, fault |-> "write"]
        ELSE Killed("write", st.cache, st.heap)

\* tritjs_multiply_big(a, b, &result) with the allocation at site failing
MultiplyFailing(cache, h, a, b, cut, site, survive) ==
    LET key == MulKey(a, b)
        lk  == MulCacheLookup(cache, h, key)
        n   == IF Len(a.digits) > Len(b.digits)
               THEN Len(a.digits) ELSE Len(b.digits)
        ok  == MultiplyKeyed(cache, h, key, a, b, cut)
    IN  IF site = "result" THEN Declined(1, cache, h)
        ELSE IF site = "as" /\ ~PrintsZero(a) THEN Declined(2, cache, h)
        ELSE IF site = "bs" /\ ~PrintsZero(b) THEN Declined(2, cache, h)
        ELSE IF site \in {"as", "bs"}
        THEN IF ~survive THEN Killed("read", cache, h)
             ELSE Ended(MultiplyKeyed(cache, h,
                                      KeyOfTexts(IF site = "as" THEN NullText
                                                 ELSE ToTritString(a),
                                                 IF site = "bs" THEN NullText
                                                 ELSE ToTritString(b)),
                                      a, b, cut), "read")
        ELSE IF lk.rc = 0
        THEN IF site = "lookup"
             THEN Ended(MultiplyComputed(cache, h, key,
                                         KaratsubaMultiply(a, b, cut)),
                        "none")
             ELSE Ended(ok, "none")
        ELSE IF site = "operand" THEN Declined(1, cache, h)
        ELSE IF site = "temporary" /\ ~PrintsZero(a) /\ ~PrintsZero(b)
                /\ n > cut
        THEN IF survive THEN Ended(ok, "write")
             ELSE Killed("write", cache, h)
        ELSE IF site = "store"
        THEN StoreFailing(cache, h, key, KaratsubaMultiply(a, b, cut),
                          survive)
        ELSE Ended(ok, "none")

-----------------------------------------------------------------------------
(* The caller of multiply under memory pressure *)

MaxFailCalls == 2

\* 2, -3, 0 and a value long enough for karatsuba to allocate temporaries.
FailPool ==
    {[sign |-> 0, digits |-> <<2>>], [sign |-> 1, digits |-> <<3>>], Zero,
     [sign |-> 0, digits |-> Run(1, KARATSUBA_CUTOVER + 1)]}

InitFailing ==
    /\ pool = FailPool
    /\ budget = MaxFailCalls
    /\ mul_cache = EmptyCache
    /\ heap = <<>>
    /\ held = {}
    /\ hit = FALSE
    /\ cutover = KARATSUBA_CUTOVER
    /\ IdleParse
    /\ IdleArith
    /\ IdleKara
    /\ IdleDiv
    /\ IdleStore

\* tritjs_multiply_big(a, b, &result); after a read or write through NULL
\* the caller is not followed further.
FailingMultiply ==
    /\ budget > 0
    /\ \E a \in pool, b \in pool, site \in AllocSites, survive \in BOOLEAN :
          \E r \in {MultiplyFailing(mul_cache, heap, a, b, cutover, site,
                                    survive)} :
              /\ mul_cache' = r.cache
              /\ heap' = r.heap
              /\ hit' = r.hit
              /\ held' = IF r.err = 0 THEN held \cup {r.out} ELSE held
              /\ res' = [err |-> r.err,
                         val |-> IF r.err = 0 THEN <<r.out>> ELSE <<>>,
                         oob |-> FALSE, fault |-> r.fault, site |-> site]
              /\ opA' = a
              /\ opB' = b
              /\ budget' = IF r.fault = "none" THEN budget - 1 ELSE 0
    /\ last' = "mul"
    /\ UNCHANGED <<pool, outsideMul>>

NextFailing == FailingMultiply

SpecFailing == InitFailing /\ [][NextFailing]_vars

\* C27: whichever allocation of a multiply fails, no step reads or writes
\* through the pointer that allocation returned, the call returns an error
\* code or the value it returns when nothing fails, and a call that returns
\* an error code leaves every cache slot as it was.
C27_FailureContained ==
    [][(last' = "mul" /\ budget' < budget) =>
          /\ res'.fault = "none"
          /\ res'.err \in {0, 1, 2}
          /\ res'.err = 0 =>
                ValueAt(heap', res'.val[1])
                    = KaratsubaMultiply(opA', opB', cutover)
                \/ hit'
          /\ res'.err # 0 =>
                CacheView(mul_cache', heap') = CacheView(mul_cache, heap)
      ]_vars

-----------------------------------------------------------------------------
(* Two callers in multiply_with_cache at once, with no lock.  Each caller   *)
(* takes the statements of mul_cache_lookup and mul_cache_store one at a    *)
(* time, in the order of the code, over the one mul_cache and the one heap. *)
(* thr.c[t] is caller t: pc the statement it is at, a and b its operands,   *)
(* key its local key, slot the slot it found, out the value it has for its  *)
(* result (<<>> before), left the calls it may still make.  thr.overlapped  *)
(* records that a call was entered while the other caller was inside one;   *)
(* thr.killed that a write went through a NULL pointer.                     *)

Callers == {1, 2}

Other(t) == 3 - t

MaxRaceCalls == 2

\* 3 and 5: products of one digit whose keys no warmed slot holds.
RacePool == {[sign |-> 0, digits |-> <<d>>] : d \in {3, 5}}

AtRest(n) ==
    [pc |-> "idle", a |-> Zero, b |-> Zero, key |-> <<>>, slot |-> 0,
     out |-> <<>>, left |-> n]

InitRace ==
    /\ pool = RacePool
    /\ budget = 0
    /\ \E k \in {0, MUL_CACHE_SIZE} :
          \E w \in {WarmUpTo(k)} : mul_cache = w.cache /\ heap = w.heap
    /\ held = {}
    /\ hit = FALSE
    /\ cutover = KARATSUBA_CUTOVER
    /\ thr = [c |-> [t \in Callers |-> AtRest(MaxRaceCalls)],
              overlapped |-> FALSE, killed |-> FALSE]
    /\ objs = <<>>
    /\ sys = <<>>
    /\ total_mapped_bytes = 0
    /\ IdleParse
    /\ IdleArith
    /\ IdleKara
    /\ IdleDiv

outsideRace ==
    <<parseVars, arithVars, karaVars, cutover, precision, pool, budget, held,
      hit, objs, sys, total_mapped_bytes>>

\* Caller t is at statement pc and the process is running.
Runs(t, pc) == ~thr.killed /\ thr.c[t].pc = pc

\* Caller t moves on with the fields of its record given in the record new.
Moved(t, new) == [thr EXCEPT !.c[t] = new]

\* memcpy(mul_cache[slot].result.digits, val->digits, val->len) leaving the
\* buffer as calloc zeroed it.
Filled_Skipped(h, buf, digits) == h

\* memcpy(mul_cache[slot].result.digits, val->digits, val->len)
Filled(h, buf, digits) == [h EXCEPT ![buf].data = digits]

\* What memcpy(dst->digits, src->digits, src->len) gives the caller for the
\* struct src: nothing from a NULL pointer of length 0.
CopiedFrom(h, src) ==
    IF src.buf = 0 THEN [sign |-> src.sign, digits |-> <<>>]
    ELSE ValueAt(h, src)

\* multiply_with_cache entered: the key is built from the operands.
RaceEnter(t) ==
    /\ Runs(t, "idle")
    /\ thr.c[t].left > 0
    /\ \E a \in pool, b \in pool :
          thr' = [Moved(t, [thr.c[t] EXCEPT !.pc = "lookup", !.a = a,
                                            !.b = b, !.key = MulKey(a, b),
                                            !.out = <<>>])
                     EXCEPT !.overlapped =
                         thr.overlapped \/ thr.c[Other(t)].pc # "idle"]
    /\ UNCHANGED <<mul_cache, heap, outsideRace>>

\* mul_cache_lookup, the search: a used slot with the key, or none and then
\* t81bigint_karatsuba_multiply(a, b, out).
RaceMatch(t) ==
    /\ Runs(t, "lookup")
    /\ \E i \in {FindKey(mul_cache, thr.c[t].key, 0)} :
          thr' = IF i < 0
                 THEN Moved(t, [thr.c[t] EXCEPT
                                   !.pc = "find",
                                   !.out = <<KaratsubaMultiply(thr.c[t].a,
                                                 thr.c[t].b, cutover)>>])
                 ELSE Moved(t, [thr.c[t] EXCEPT !.pc = "copy", !.slot = i])
    /\ UNCHANGED <<mul_cache, heap, outsideRace>>

\* mul_cache_lookup, the copy out of the slot found; the call returns 0.
RaceCopy(t) ==
    /\ Runs(t, "copy")
    /\ thr' = Moved(t, [thr.c[t] EXCEPT
                           !.pc = "idle",
                           !.out = <<CopiedFrom(heap,
                                         mul_cache[thr.c[t].slot].result)>>,
                           !.left = @ - 1])
    /\ UNCHANGED <<mul_cache, heap, outsideRace>>

\* mul_cache_store: the first slot not used, else slot 0.
RaceFind(t) ==
    /\ Runs(t, "find")
    /\ thr' = Moved(t, [thr.c[t] EXCEPT !.pc = "key",
                                        !.slot = FindFree(mul_cache, 0)])
    /\ UNCHANGED <<mul_cache, heap, outsideRace>>

\* strncpy(mul_cache[slot].key, key, sizeof(mul_cache[slot].key));
RaceKey(t) ==
    /\ Runs(t, "key")
    /\ mul_cache' = [mul_cache EXCEPT ![thr.c[t].slot].key =
                         Truncate(thr.c[t].key, KEY_SIZE - 1)]
    /\ thr' = Moved(t, [thr.c[t] EXCEPT !.pc = "free"])
    /\ UNCHANGED <<heap, outsideRace>>

\* t81bigint_free(&mul_cache[slot].result);
RaceFree(t) ==
    /\ Runs(t, "free")
    /\ heap' = HeapFree(heap, mul_cache[thr.c[t].slot].result.buf)
    /\ mul_cache' = [mul_cache EXCEPT ![thr.c[t].slot].result =
                         EmptySlot.result]
    /\ thr' = Moved(t, [thr.c[t] EXCEPT !.pc = "used"])
    /\ UNCHANGED outsideRace

\* mul_cache[slot].used = 1;
RaceUsed(t) ==
    /\ Runs(t, "used")
    /\ mul_cache' = [mul_cache EXCEPT ![thr.c[t].slot].used = 1]
    /\ thr' = Moved(t, [thr.c[t] EXCEPT !.pc = "alloc"])
    /\ UNCHANGED <<heap, outsideRace>>

\* allocate_digits(&mul_cache[slot].result, val->len): a zeroed buffer.
RaceAlloc(t) ==
    /\ Runs(t, "alloc")
    /\ \E n \in {Len(thr.c[t].out[1].digits)} :
          /\ heap' = HeapAlloc(heap, Run(0, n))
          /\ mul_cache' = [mul_cache EXCEPT ![thr.c[t].slot].result =
                               [sign |-> 0, len |-> n, buf |-> Len(heap')]]
    /\ thr' = Moved(t, [thr.c[t] EXCEPT !.pc = "fill"])
    /\ UNCHANGED outsideRace

\* mul_cache[slot].result.len = val->len; .sign = val->sign; memcpy(...);
\* the call returns 0.  The memcpy goes through the pointer the slot holds
\* now; through NULL it kills the process.
RaceFill(t) ==
    /\ Runs(t, "fill")
    /\ \E val \in {thr.c[t].out[1]}, buf \in {mul_cache[thr.c[t].slot].result.buf} :
          /\ mul_cache' = [mul_cache EXCEPT ![thr.c[t].slot].result =
                               [sign |-> val.sign, len |-> Len(val.digits),
                                buf |-> buf]]
          /\ IF buf = 0
             THEN /\ heap' = heap
                  /\ thr' = [thr EXCEPT !.killed = TRUE]
             ELSE /\ heap' = Filled(heap, buf, val.digits)
                  /\ thr' = Moved(t, [thr.c[t] EXCEPT !.pc = "idle",
                                                      !.left = @ - 1])
    /\ UNCHANGED outsideRace

NextRace ==
    \E t \in Callers :
        \/ RaceEnter(t)
        \/ RaceMatch(t)
        \/ RaceCopy(t)
        \/ RaceFind(t)
        \/ RaceKey(t)
        \/ RaceFree(t)
        \/ RaceUsed(t)
        \/ RaceAlloc(t)
        \/ RaceFill(t)

SpecRace == InitRace /\ [][NextRace]_vars

\* The slot caller t's search has matched does not hold the product of t's
\* operands: its result is another key's, is cleared, or is not filled yet.
BadMatch(t) ==
    /\ thr.c[t].pc = "copy"
    /\ CopiedFrom(heap, mul_cache[thr.c[t].slot].result)
           # KaratsubaMultiply(thr.c[t].a, thr.c[t].b, cutover)

\* C28: with no lock the cache is not safe for two callers: a lookup matches
\* a slot whose result is not the product for its key in some interleaving
\* of the two callers, and only when their calls overlapped; callers that
\* take turns never see such a slot.
C28_UnsafeOnlyWhenOverlapped ==
    \A t \in Callers : BadMatch(t) => thr.overlapped

C28_Witness ==
    \E t \in Callers :
        /\ BadMatch(t)
        /\ thr.c[Other(t)].pc \in {"free", "used", "alloc", "fill"}
        /\ thr.c[Other(t)].slot = thr.c[t].slot

=============================================================================
